---- MODULE Spec2Model ----
(***************************************************************************)
(* Model of the skill-matching, scoring and job-fetching code of           *)
(* CareerBlueprint:                                                        *)
(*   backend/recommendation_engine/recommendation_engine.py                *)
(*   backend/skill_analyzer/skill_analyzer.py                              *)
(*   backend/openai_helper/openai_helper.py                                *)
(*   backend/job_fetcher/job_fetcher.py                                    *)
(*                                                                         *)
(* Strings are sequences of one-character strings, so that str.lower()     *)
(* and the substring test `a in b` are computed character by character.    *)
(* Floats are exact rationals <<numerator, denominator>>; IEEE rounding    *)
(* is not modelled.  Optional values are <<>> (None) or <<v>>.             *)
(***************************************************************************)
EXTENDS Integers, Sequences, FiniteSets, TLC

VARIABLES
    files,                \* the taxonomy file and the learning-resource file
    skill_taxonomy,       \* SkillAnalyzer.skill_taxonomy
    skill_index,          \* SkillAnalyzer.skill_index
    SentenceTransformer,  \* module attribute: "None" (import failed) or "class"
    model,                \* SkillAnalyzer.model: None, or Some(n) for the n-th
                          \* SentenceTransformer instance constructed
    openai_helper,        \* RecommendationEngine.openai_helper
    pc,                   \* "new" before construction, "idle" between calls,
                          \* "called" during a call, "done" when it returned,
                          \* "failed" when construction raised
    call,                 \* operation, arguments and external outcomes of the call
    result,               \* what the call returned (or that it raised)
    memo,                 \* an earlier call, kept with its result
    job_fetcher,          \* JobFetcher: which of the two clients it has
    cache,                \* the files of JobCache.cache_dir, by cache key
    callers,              \* the threads inside compute_skill_embeddings
    instances             \* how many SentenceTransformer instances were constructed

\* what belongs to the job fetcher, and what to the concurrent callers
fetcher_vars == <<job_fetcher, cache>>
caller_vars == <<callers, instances>>

vars == <<files, skill_taxonomy, skill_index, SentenceTransformer, model, openai_helper,
          pc, call, result, memo, job_fetcher, cache, callers, instances>>

-----------------------------------------------------------------------------
(* Bounds of the model *)

MaxSkills == 2      \* longest list given to _compare_skills / _skill_similarity
SemDen == 1         \* cosine similarities are the multiples of 1/SemDen in [-1, 1]
MaxSalary == 2      \* salary amounts are 0..MaxSalary
MaxJobs == 3        \* longest posting list handed to generate_recommendations
MaxLimit == 3       \* limits are -MaxLimit..MaxLimit
MaxCategories == 2  \* categories of a taxonomy
MaxCategorySkills == 2  \* skills of a category
MaxSynonyms == 1    \* synonyms of a skill
MaxItems == 2       \* skills named in a text
MaxLocations == 2   \* longest list of preferred locations
MaxExperience == 12  \* experience_years are 0..MaxExperience
MaxRequirements == 4

\* the largest total handed to _calculate_impact on its own
MaxTotal == 8

\* the longest list of matching or missing skills handed to _generate_explanation
MaxListed == 4

\* the largest limit given to fetch_jobs, and the most postings a job board has
MaxFetchLimit == 2
MaxApiJobs == 2

\* the threads that call compute_skill_embeddings on the shared analyzer
MaxCallers == 2  \* longest list given to normalize_skills / identify_skill_gaps

-----------------------------------------------------------------------------
(* Python values *)

None == <<>>
Some(v) == <<v>>

\* d.get(key, default) on a dict with fixed string keys, which is a function
\* on the keys it holds
Get(d, key, default) == IF key \in DOMAIN d THEN d[key] ELSE default

\* Python truthiness of an Optional[number]: None and 0 are falsy
Truthy(x) == x # None /\ x[1] # 0

UpperToLower ==
    [c \in {"A","B","C","D","E","F","G","H","I","J","K","L","M",
            "N","O","P","Q","R","S","T","U","V","W","X","Y","Z"} |->
        CASE c = "A" -> "a" [] c = "B" -> "b" [] c = "C" -> "c" [] c = "D" -> "d"
          [] c = "E" -> "e" [] c = "F" -> "f" [] c = "G" -> "g" [] c = "H" -> "h"
          [] c = "I" -> "i" [] c = "J" -> "j" [] c = "K" -> "k" [] c = "L" -> "l"
          [] c = "M" -> "m" [] c = "N" -> "n" [] c = "O" -> "o" [] c = "P" -> "p"
          [] c = "Q" -> "q" [] c = "R" -> "r" [] c = "S" -> "s" [] c = "T" -> "t"
          [] c = "U" -> "u" [] c = "V" -> "v" [] c = "W" -> "w" [] c = "X" -> "x"
          [] c = "Y" -> "y" [] c = "Z" -> "z"]

LowerChar(c) == IF c \in DOMAIN UpperToLower THEN UpperToLower[c] ELSE c

\* str.lower()
RECURSIVE Lower(_)
Lower(s) == IF s = <<>> THEN <<>> ELSE <<LowerChar(Head(s))>> \o Lower(Tail(s))

\* the Python test `kw in text` on strings
Contains(text, kw) ==
    \E i \in 1..(Len(text) - Len(kw) + 1) : SubSeq(text, i, i + Len(kw) - 1) = kw

\* [f(x) for x in seq] with f = str.lower
RECURSIVE LowerAll(_)
LowerAll(seq) == IF seq = <<>> THEN <<>> ELSE <<Lower(Head(seq))>> \o LowerAll(Tail(seq))

\* set(seq)
SetOf(seq) == {seq[i] : i \in 1..Len(seq)}

\* seq[:n] for any integer n
Slice(seq, n) ==
    IF n >= 0
    THEN SubSeq(seq, 1, IF n < Len(seq) THEN n ELSE Len(seq))
    ELSE SubSeq(seq, 1, IF Len(seq) + n > 0 THEN Len(seq) + n ELSE 0)

-----------------------------------------------------------------------------
(* Exact arithmetic on the values the code computes as floats *)

Abs(n) == IF n < 0 THEN -n ELSE n

RECURSIVE GCD(_, _)
GCD(a, b) == IF b = 0 THEN a ELSE GCD(b, a % b)

\* the rational n/d in lowest terms with a positive denominator (d # 0)
Rat(n, d) ==
    LET g == GCD(Abs(n), Abs(d))
        s == IF d < 0 THEN -1 ELSE 1
    IN  <<(s * n) \div g, (s * d) \div g>>

RAdd(a, b) == Rat(a[1] * b[2] + b[1] * a[2], a[2] * b[2])
RMul(a, b) == Rat(a[1] * b[1], a[2] * b[2])
RLe(a, b) == a[1] * b[2] <= b[1] * a[2]
RLt(a, b) == a[1] * b[2] < b[1] * a[2]
RMin(a, b) == IF RLe(a, b) THEN a ELSE b

Zero == Rat(0, 1)
One == Rat(1, 1)

-----------------------------------------------------------------------------
(* Input domains *)

Py == <<"P","y">>
py == <<"p","y">>
Cpp == <<"C","+">>

SkillNames == {Py, py, Cpp}

RECURSIVE ListsUpTo(_, _)
ListsUpTo(S, n) ==
    IF n = 0 THEN {<<>>}
    ELSE LET shorter == ListsUpTo(S, n - 1)
         IN  shorter \cup {Append(l, x) : l \in {m \in shorter : Len(m) = n - 1}, x \in S}

SkillLists == ListsUpTo(SkillNames, MaxSkills)

-----------------------------------------------------------------------------
(* RecommendationEngine._compare_skills, lines 271-291 *)

RECURSIVE Filter(_, _, _)
\* the requirements whose lowercase form is (keep = TRUE) / is not in user_lower
Filter(job_skills, user_lower, keep) ==
    IF job_skills = <<>> THEN <<>>
    ELSE LET job_skill == Head(job_skills)
             rest == Filter(Tail(job_skills), user_lower, keep)
         IN  IF (Lower(job_skill) \in user_lower) = keep
             THEN <<job_skill>> \o rest
             ELSE rest

\* variant: the profile skills are not lowercased before the comparison
_compare_skills_raw_user(user_skills, job_skills) ==
    LET user_skills_lower == SetOf(user_skills)
    IN  [matching |-> Filter(job_skills, user_skills_lower, TRUE),
         missing  |-> Filter(job_skills, user_skills_lower, FALSE)]

_compare_skills(user_skills, job_skills) ==
    LET user_skills_lower == SetOf(LowerAll(user_skills))
    IN  [matching |-> Filter(job_skills, user_skills_lower, TRUE),
         missing  |-> Filter(job_skills, user_skills_lower, FALSE)]

-----------------------------------------------------------------------------
(* The embedding capability: what the sentence-transformer library does     *)
(* when the analyzer asks it, drawn per call.                               *)

Sems == {Rat(n, SemDen) : n \in (-SemDen)..SemDen}

NoFailure == [load |-> "ok", encode_user |-> "ok", encode_job |-> "ok",
              similarity |-> [raises |-> FALSE, value |-> One]]

\* the outcomes that can be told apart when the library is installed
EmbedOutcomes ==
    {[NoFailure EXCEPT !.similarity = [raises |-> FALSE, value |-> s]] : s \in Sems}
    \cup {[NoFailure EXCEPT !.similarity = [raises |-> TRUE, value |-> Zero]]}
    \cup {[NoFailure EXCEPT !.load = "raises"]}
    \cup {[NoFailure EXCEPT !.encode_user = o] : o \in {"raises", "none"}}
    \cup {[NoFailure EXCEPT !.encode_job = o] : o \in {"raises", "none"}}

\* nothing of the library is consulted when it is not installed, and the
\* constructor is not called again once the model is loaded
EmbedEnvs(st, mdl) ==
    IF st = "None" /\ mdl = None THEN {NoFailure}
    ELSE IF mdl # None THEN {e \in EmbedOutcomes : e.load = "ok"}
    ELSE EmbedOutcomes

-----------------------------------------------------------------------------
(* SkillAnalyzer._lazy_load_model, lines 36-40 *)

_lazy_load_model(st, mdl, load) ==
    IF mdl = None /\ st # "None"
    THEN IF load = "raises"
         THEN [raised |-> TRUE, model |-> mdl]
         ELSE [raised |-> FALSE, model |-> Some(1)]
    ELSE [raised |-> FALSE, model |-> mdl]

(* SkillAnalyzer.compute_skill_embeddings, lines 162-181 *)

compute_skill_embeddings(skills, st, mdl, load, encode) ==
    LET loaded == _lazy_load_model(st, mdl, load)
    IN  IF loaded.raised
        THEN [raised |-> TRUE, value |-> "None", model |-> loaded.model]
        ELSE IF loaded.model = None \/ skills = <<>>
        THEN [raised |-> FALSE, value |-> "None", model |-> loaded.model]
        ELSE IF encode = "ok"
        THEN [raised |-> FALSE, value |-> "array", model |-> loaded.model]
        ELSE \* encode raised and was caught, or returned nothing
             [raised |-> FALSE, value |-> "None", model |-> loaded.model]

-----------------------------------------------------------------------------
(* RecommendationEngine._skill_similarity, lines 127-167 *)

\* variant: the two lowercased sets are united instead of intersected
overlap_score_union(user_skills, job_skills) ==
    LET user_skills_lower == LowerAll(user_skills)
        job_skills_lower == LowerAll(job_skills)
        matching == SetOf(user_skills_lower) \cup SetOf(job_skills_lower)
    IN  IF job_skills_lower # <<>>
        THEN Rat(Cardinality(matching), Len(job_skills_lower))
        ELSE Zero

overlap_score(user_skills, job_skills) ==
    LET user_skills_lower == LowerAll(user_skills)
        job_skills_lower == LowerAll(job_skills)
        matching == SetOf(user_skills_lower) \cap SetOf(job_skills_lower)
    IN  IF job_skills_lower # <<>>
        THEN Rat(Cardinality(matching), Len(job_skills_lower))
        ELSE Zero

\* variant: the exception handler gives up on the overlap score and returns 0.0
semantic_or_overlap_except_zero(overlap, user_embeddings, job_embeddings, similarity) ==
    IF user_embeddings.raised
    THEN [raised |-> FALSE, value |-> Zero, model |-> user_embeddings.model]
    ELSE IF job_embeddings.raised
    THEN [raised |-> FALSE, value |-> Zero, model |-> job_embeddings.model]
    ELSE IF user_embeddings.value # "None" /\ job_embeddings.value # "None"
    THEN IF similarity.raises
         THEN [raised |-> FALSE, value |-> Zero, model |-> job_embeddings.model]
         ELSE [raised |-> FALSE,
               value |-> RAdd(RMul(overlap, Rat(6, 10)), RMul(similarity.value, Rat(4, 10))),
               model |-> job_embeddings.model]
    ELSE [raised |-> FALSE, value |-> overlap, model |-> job_embeddings.model]

\* lines 150-167: the try block after the two calls of compute_skill_embeddings;
\* an exception of either call or of the similarity computation is caught and
\* logged, and the overlap score is returned
semantic_or_overlap(overlap, user_embeddings, job_embeddings, similarity) ==
    IF user_embeddings.raised
    THEN [raised |-> FALSE, value |-> overlap, model |-> user_embeddings.model]
    ELSE IF job_embeddings.raised
    THEN [raised |-> FALSE, value |-> overlap, model |-> job_embeddings.model]
    ELSE IF user_embeddings.value # "None" /\ job_embeddings.value # "None"
    THEN IF similarity.raises
         THEN [raised |-> FALSE, value |-> overlap, model |-> job_embeddings.model]
         ELSE [raised |-> FALSE,
               value |-> RAdd(RMul(overlap, Rat(6, 10)), RMul(similarity.value, Rat(4, 10))),
               model |-> job_embeddings.model]
    ELSE [raised |-> FALSE, value |-> overlap, model |-> job_embeddings.model]

\* lines 151-152: the second call uses the model the first call left behind
embed_job_skills(overlap, user_embeddings, job_skills, st, env) ==
    semantic_or_overlap(overlap, user_embeddings,
        compute_skill_embeddings(job_skills, st, user_embeddings.model,
                                 env.load, env.encode_job),
        env.similarity)

_skill_similarity(user_skills, job_skills, st, mdl, env) ==
    IF user_skills = <<>> \/ job_skills = <<>>
    THEN [raised |-> FALSE, value |-> Zero, model |-> mdl]
    ELSE embed_job_skills(overlap_score(user_skills, job_skills),
             compute_skill_embeddings(user_skills, st, mdl, env.load, env.encode_user),
             job_skills, st, env)

-----------------------------------------------------------------------------
(* RecommendationEngine._experience_match, lines 169-207 *)

\* variant: "senior" / "lead" are tested before "entry level" / "junior"
_experience_match_senior_first(user_exp, job_description) ==
    LET desc_lower == Lower(job_description)
        required_exp ==
            IF Contains(desc_lower, <<"s","e","n","i","o","r">>) \/ Contains(desc_lower, <<"l","e","a","d">>)
            THEN 5
            ELSE IF Contains(desc_lower, <<"e","n","t","r","y"," ","l","e","v","e","l">>) \/ Contains(desc_lower, <<"j","u","n","i","o","r">>)
            THEN 1
            ELSE IF Contains(desc_lower, <<"m","i","d"," ","l","e","v","e","l">>) \/ Contains(desc_lower, <<"i","n","t","e","r","m","e","d","i","a","t","e">>)
            THEN 3
            ELSE IF Contains(desc_lower, <<"p","r","i","n","c","i","p","a","l">>) \/ Contains(desc_lower, <<"s","t","a","f","f">>)
            THEN 8
            ELSE 3
        diff == Abs(user_exp - required_exp)
    IN  IF diff = 0 THEN One
        ELSE IF diff <= 1 THEN Rat(9, 10)
        ELSE IF diff <= 2 THEN Rat(7, 10)
        ELSE IF diff <= 3 THEN Rat(5, 10)
        ELSE Rat(3, 10)

_experience_match(user_exp, job_description) ==
    LET desc_lower == Lower(job_description)
        required_exp ==
            IF Contains(desc_lower, <<"e","n","t","r","y"," ","l","e","v","e","l">>) \/ Contains(desc_lower, <<"j","u","n","i","o","r">>)
            THEN 1
            ELSE IF Contains(desc_lower, <<"m","i","d"," ","l","e","v","e","l">>) \/ Contains(desc_lower, <<"i","n","t","e","r","m","e","d","i","a","t","e">>)
            THEN 3
            ELSE IF Contains(desc_lower, <<"s","e","n","i","o","r">>) \/ Contains(desc_lower, <<"l","e","a","d">>)
            THEN 5
            ELSE IF Contains(desc_lower, <<"p","r","i","n","c","i","p","a","l">>) \/ Contains(desc_lower, <<"s","t","a","f","f">>)
            THEN 8
            ELSE 3
        diff == Abs(user_exp - required_exp)
    IN  IF diff = 0 THEN One
        ELSE IF diff <= 1 THEN Rat(9, 10)
        ELSE IF diff <= 2 THEN Rat(7, 10)
        ELSE IF diff <= 3 THEN Rat(5, 10)
        ELSE Rat(3, 10)

(* RecommendationEngine._location_match, lines 209-235 *)

\* variant: the comparison is case-sensitive
_location_match_case_sensitive(preferred_locations, job_location, is_remote) ==
    IF is_remote THEN One
    ELSE IF preferred_locations = <<>> THEN Rat(7, 10)
    ELSE IF \E i \in 1..Len(preferred_locations) :
                Contains(job_location, preferred_locations[i])
    THEN One
    ELSE Rat(3, 10)

_location_match(preferred_locations, job_location, is_remote) ==
    IF is_remote THEN One
    ELSE IF preferred_locations = <<>> THEN Rat(7, 10)
    ELSE IF \E i \in 1..Len(preferred_locations) :
                Contains(Lower(job_location), Lower(preferred_locations[i]))
    THEN One
    ELSE Rat(3, 10)

(* RecommendationEngine._salary_match, lines 237-269 *)

_salary_match(user_min, user_max, job_min, job_max) ==
    IF ~Truthy(user_min) \/ ~Truthy(job_max)
    THEN Rat(7, 10)
    ELSE IF job_max[1] >= user_min[1]
    THEN IF Truthy(job_min) /\ Truthy(user_max)
         THEN LET overlap_start ==
                      IF user_min[1] >= job_min[1] THEN user_min[1] ELSE job_min[1]
                  overlap_end ==
                      IF user_max[1] <= job_max[1] THEN user_max[1] ELSE job_max[1]
                  user_range == user_max[1] - user_min[1]
                  overlap == overlap_end - overlap_start
              IN  IF overlap_end >= overlap_start
                  THEN IF user_range > 0
                       THEN RMin(One, Rat(overlap, user_range))
                       ELSE One
                  ELSE Rat(8, 10)
         ELSE Rat(8, 10)
    ELSE Rat(2, 10)

-----------------------------------------------------------------------------
(* RecommendationEngine.__init__, lines 20-25 *)

weights == [skill_match |-> Rat(5, 10), experience_match |-> Rat(2, 10),
            location_match |-> Rat(15, 100), salary_match |-> Rat(15, 100)]

(* RecommendationEngine.compute_match_score, lines 79-125 *)

\* lines 119-125: the weighted sum of the four factors, scaled to 0-100
weighted_score(skill, experience_match, location_match, salary_match) ==
    IF skill.raised
    THEN [raised |-> TRUE, value |-> Zero, model |-> skill.model]
    ELSE [raised |-> FALSE,
          value |-> RMul(RAdd(RAdd(RAdd(RAdd(Zero,
                        RMul(skill.value, weights.skill_match)),
                        RMul(experience_match, weights.experience_match)),
                        RMul(location_match, weights.location_match)),
                        RMul(salary_match, weights.salary_match)),
                    Rat(100, 1)),
          model |-> skill.model]

\* variant: the optional fields are read with d[key], which raises KeyError
\* for a key the dict does not hold
compute_match_score_subscript(user_profile, job, st, mdl, env) ==
    IF \/ {"salary_min", "salary_max", "preferred_locations"} \ DOMAIN user_profile # {}
       \/ {"salary_min", "salary_max"} \ DOMAIN job # {}
    THEN [raised |-> TRUE, value |-> Zero, model |-> mdl]
    ELSE weighted_score(
             _skill_similarity(user_profile["skills"], job["requirements"], st, mdl, env),
             _experience_match(user_profile["experience_years"], job["description"]),
             _location_match(user_profile["preferred_locations"], job["location"],
                             job["remote"]),
             _salary_match(user_profile["salary_min"], user_profile["salary_max"],
                           job["salary_min"], job["salary_max"]))

compute_match_score(user_profile, job, st, mdl, env) ==
    weighted_score(
        _skill_similarity(Get(user_profile, "skills", <<>>),
                          Get(job, "requirements", <<>>), st, mdl, env),
        _experience_match(Get(user_profile, "experience_years", 0),
                          Get(job, "description", <<>>)),
        _location_match(Get(user_profile, "preferred_locations", <<>>),
                        Get(job, "location", <<>>), Get(job, "remote", FALSE)),
        _salary_match(Get(user_profile, "salary_min", None),
                      Get(user_profile, "salary_max", None),
                      Get(job, "salary_min", None), Get(job, "salary_max", None)))

-----------------------------------------------------------------------------
(* Text formatting *)

Digits == <<"0","1","2","3","4","5","6","7","8","9">>

\* str(n) for n >= 0
RECURSIVE Str(_)
Str(n) == IF n < 10 THEN <<Digits[n + 1]>> ELSE Str(n \div 10) \o <<Digits[(n % 10) + 1]>>

\* sep.join(parts)
RECURSIVE Join(_, _)
Join(parts, sep) ==
    IF parts = <<>> THEN <<>>
    ELSE IF Len(parts) = 1 THEN parts[1]
    ELSE parts[1] \o sep \o Join(Tail(parts), sep)

\* Python truthiness of an Optional[str]: None and "" are falsy
TruthyText(x) == x # None /\ x[1] # <<>>

-----------------------------------------------------------------------------
(* OpenAIHelper.generate_recommendation_explanation, lines 151-198           *)
(* `completion` is what client.chat.completions.create does in this call:    *)
(* "raises", or a response whose content is None ("none"), "" ("empty") or   *)
(* a text ("text").                                                          *)

Completions == {"raises", "none", "empty", "text"}

GptText == <<"A"," ","s","o","l","i","d"," ","m","a","t","c","h"," ","f","o","r"," ","y","o","u",".">>

\* variant: the call to the client is not wrapped in try/except
generate_recommendation_explanation_no_try(helper, completion) ==
    IF ~helper.available
    THEN [raised |-> FALSE, value |-> None]
    ELSE IF completion = "raises" THEN [raised |-> TRUE, value |-> None]
    ELSE IF completion = "none" THEN [raised |-> FALSE, value |-> None]
    ELSE IF completion = "empty" THEN [raised |-> FALSE, value |-> Some(<<>>)]
    ELSE [raised |-> FALSE, value |-> Some(GptText)]

generate_recommendation_explanation(helper, completion) ==
    IF ~helper.available
    THEN [raised |-> FALSE, value |-> None]
    ELSE IF completion = "raises"
    THEN \* except Exception: logged, return None
         [raised |-> FALSE, value |-> None]
    ELSE IF completion = "none" THEN [raised |-> FALSE, value |-> None]
    ELSE IF completion = "empty" THEN [raised |-> FALSE, value |-> Some(<<>>)]
    ELSE [raised |-> FALSE, value |-> Some(GptText)]

-----------------------------------------------------------------------------
(* RecommendationEngine._generate_explanation, lines 293-343 *)

\* variant: the missing skills are listed whatever their number
template_explanation_all_missing(score, matching_skills, missing_skills, user_profile, job) ==
    LET skill_part ==
            IF matching_skills # <<>>
            THEN <<<<"Y","o","u"," ","h","a","v","e"," ">> \o Str(Len(matching_skills)) \o <<" ","m","a","t","c","h","i","n","g"," ","s","k","i","l","l","s",":"," ">>
                   \o Join(Slice(matching_skills, 3), <<","," ">>)>>
            ELSE <<>>
        missing_part ==
            IF missing_skills # <<>>
            THEN <<<<"Y","o","u","'","r","e"," ","m","i","s","s","i","n","g",":"," ">> \o Join(missing_skills, <<","," ">>)>>
            ELSE <<>>
        user_exp == Get(user_profile, "experience_years", 0)
        experience_part ==
            IF user_exp >= 5 THEN <<<<"Y","o","u","r"," ","s","e","n","i","o","r"," ","e","x","p","e","r","i","e","n","c","e"," ","i","s"," ","a"," ","g","r","e","a","t"," ","f","i","t">>>>
            ELSE IF user_exp >= 2 THEN <<<<"Y","o","u","r"," ","e","x","p","e","r","i","e","n","c","e"," ","l","e","v","e","l"," ","m","a","t","c","h","e","s"," ","w","e","l","l">>>>
            ELSE <<>>
        remote_part == IF Get(job, "remote", FALSE) THEN <<<<"R","e","m","o","t","e"," ","p","o","s","i","t","i","o","n">>>> ELSE <<>>
        explanations == skill_part \o missing_part \o experience_part \o remote_part
        prefix ==
            IF RLe(Rat(80, 1), score) THEN <<"E","x","c","e","l","l","e","n","t"," ","m","a","t","c","h","!"," ">>
            ELSE IF RLe(Rat(60, 1), score) THEN <<"G","o","o","d"," ","m","a","t","c","h","."," ">>
            ELSE <<"P","o","t","e","n","t","i","a","l"," ","m","a","t","c","h","."," ">>
    IN  prefix \o Join(explanations, <<"."," ">>)

\* lines 310-343: the template-based explanation
template_explanation(score, matching_skills, missing_skills, user_profile, job) ==
    LET skill_part ==
            IF matching_skills # <<>>
            THEN <<<<"Y","o","u"," ","h","a","v","e"," ">> \o Str(Len(matching_skills)) \o <<" ","m","a","t","c","h","i","n","g"," ","s","k","i","l","l","s",":"," ">>
                   \o Join(Slice(matching_skills, 3), <<","," ">>)>>
            ELSE <<>>
        missing_part ==
            IF missing_skills # <<>> /\ Len(missing_skills) <= 3
            THEN <<<<"Y","o","u","'","r","e"," ","m","i","s","s","i","n","g",":"," ">> \o Join(missing_skills, <<","," ">>)>>
            ELSE <<>>
        user_exp == Get(user_profile, "experience_years", 0)
        experience_part ==
            IF user_exp >= 5 THEN <<<<"Y","o","u","r"," ","s","e","n","i","o","r"," ","e","x","p","e","r","i","e","n","c","e"," ","i","s"," ","a"," ","g","r","e","a","t"," ","f","i","t">>>>
            ELSE IF user_exp >= 2 THEN <<<<"Y","o","u","r"," ","e","x","p","e","r","i","e","n","c","e"," ","l","e","v","e","l"," ","m","a","t","c","h","e","s"," ","w","e","l","l">>>>
            ELSE <<>>
        remote_part == IF Get(job, "remote", FALSE) THEN <<<<"R","e","m","o","t","e"," ","p","o","s","i","t","i","o","n">>>> ELSE <<>>
        explanations == skill_part \o missing_part \o experience_part \o remote_part
        prefix ==
            IF RLe(Rat(80, 1), score) THEN <<"E","x","c","e","l","l","e","n","t"," ","m","a","t","c","h","!"," ">>
            ELSE IF RLe(Rat(60, 1), score) THEN <<"G","o","o","d"," ","m","a","t","c","h","."," ">>
            ELSE <<"P","o","t","e","n","t","i","a","l"," ","m","a","t","c","h","."," ">>
    IN  prefix \o Join(explanations, <<"."," ">>)

\* lines 307-343: the generated text if there is one, else the template
explanation_or_template(gpt_explanation, score, matching_skills, missing_skills, user_profile, job) ==
    IF gpt_explanation.raised
    THEN \* no handler here: the exception leaves _generate_explanation
         [raised |-> TRUE, value |-> <<>>]
    ELSE IF TruthyText(gpt_explanation.value)
    THEN [raised |-> FALSE, value |-> gpt_explanation.value[1]]
    ELSE [raised |-> FALSE,
          value |-> template_explanation(score, matching_skills, missing_skills,
                                         user_profile, job)]

_generate_explanation(score, matching_skills, missing_skills, user_profile, job, helper, completion) ==
    explanation_or_template(
        IF helper.present
        THEN generate_recommendation_explanation(helper, completion)
        ELSE [raised |-> FALSE, value |-> None],
        score, matching_skills, missing_skills, user_profile, job)

(* RecommendationEngine._calculate_confidence, lines 345-362 *)

_calculate_confidence(job) ==
    LET c0 == Rat(5, 10)
        c1 == IF job.requirements # <<>> THEN RAdd(c0, Rat(2, 10)) ELSE c0
        c2 == IF job.description # <<>> /\ Len(job.description) > 100
              THEN RAdd(c1, Rat(15, 100)) ELSE c1
        c3 == IF Truthy(job.salary_min) /\ Truthy(job.salary_max)
              THEN RAdd(c2, Rat(15, 100)) ELSE c2
    IN  RMin(One, c3)

-----------------------------------------------------------------------------
(* RecommendationEngine.generate_recommendations, lines 27-77 *)

\* floor(n / d) for d > 0
FloorDiv(n, d) == IF n >= 0 THEN n \div d ELSE -((-n + d - 1) \div d)

\* variant: the digits after the second decimal are cut off
round2_truncated(x) == Rat(FloorDiv(x[1] * 100, x[2]), 100)

\* round(x, 2) on the exact value, ties to the even hundredth
round2(x) ==
    LET scaled == 2 * 100 * x[1]            \* 200 x as scaled / x[2]
        lower == FloorDiv(100 * x[1], x[2])  \* floor(100 x)
        twice == scaled - 2 * lower * x[2]   \* 2 * frac(100 x) * x[2]
    IN  IF twice < x[2] THEN Rat(lower, 100)
        ELSE IF twice > x[2] THEN Rat(lower + 1, 100)
        ELSE IF lower % 2 = 0 THEN Rat(lower, 100) ELSE Rat(lower + 1, 100)

\* variant: the entry goes in front of the entries with an equal key, as a
\* sort that is ascending and then reversed places it
insert_by_score_ties_reversed(sorted, rec) ==
    LET ahead == {k \in 1..Len(sorted) : RLt(rec.match_score, sorted[k].match_score)}
        n == IF ahead = {} THEN 0 ELSE CHOOSE k \in ahead : \A m \in ahead : m <= k
    IN  SubSeq(sorted, 1, n) \o <<rec>> \o SubSeq(sorted, n + 1, Len(sorted))

\* list.sort(key=match_score, reverse=True), a stable sort: the entry goes
\* behind every entry already placed whose key is not smaller
insert_by_score(sorted, rec) ==
    LET ahead == {k \in 1..Len(sorted) : RLe(rec.match_score, sorted[k].match_score)}
        n == IF ahead = {} THEN 0 ELSE CHOOSE k \in ahead : \A m \in ahead : m <= k
    IN  SubSeq(sorted, 1, n) \o <<rec>> \o SubSeq(sorted, n + 1, Len(sorted))

RECURSIVE sort_by_match_score(_)
sort_by_match_score(recommendations) ==
    IF recommendations = <<>> THEN <<>>
    ELSE LET n == Len(recommendations)
         IN  insert_by_score(sort_by_match_score(SubSeq(recommendations, 1, n - 1)),
                             recommendations[n])

\* lines 63-72: the recommendation of one posting, in front of those of the
\* postings after it; an exception ends the loop
append_recommendation(explanation, job, score, compared, rest) ==
    IF explanation.raised THEN [raised |-> TRUE, value |-> <<>>, model |-> score.model]
    ELSE IF rest.raised THEN rest
    ELSE [raised |-> FALSE,
          value |-> <<[job |-> job,
                       match_score |-> round2(score.value),
                       matching_skills |-> compared.matching,
                       missing_skills |-> compared.missing,
                       explanation |-> explanation.value,
                       confidence |-> _calculate_confidence(job)]>> \o rest.value,
          model |-> rest.model]

\* lines 45-72: the loop over the postings from position i on; the model the
\* analyzer loaded for one posting is the model it uses for the next
RECURSIVE recommend_from(_, _, _, _, _, _, _, _)
RECURSIVE recommend_one(_, _, _, _, _, _, _, _, _)

\* lines 55-72: the rest of the loop body once score and skill lists are known
recommend_one(i, user_profile, jobs, st, helper, env, completions, score, compared) ==
    IF score.raised THEN [raised |-> TRUE, value |-> <<>>, model |-> score.model]
    ELSE append_recommendation(
             _generate_explanation(score.value, compared.matching, compared.missing,
                                   user_profile, jobs[i], helper, completions[i]),
             jobs[i], score, compared,
             recommend_from(i + 1, user_profile, jobs, st, score.model, helper, env,
                            completions))

recommend_from(i, user_profile, jobs, st, mdl, helper, env, completions) ==
    IF i > Len(jobs) THEN [raised |-> FALSE, value |-> <<>>, model |-> mdl]
    ELSE recommend_one(i, user_profile, jobs, st, helper, env, completions,
             compute_match_score(user_profile, jobs[i], st, mdl, env),
             _compare_skills(user_profile.skills, jobs[i].requirements))

\* lines 74-77: sort by match score, keep the first `limit`
sort_and_cut(looped, limit) ==
    IF looped.raised THEN looped
    ELSE [raised |-> FALSE,
          value |-> Slice(sort_by_match_score(looped.value), limit),
          model |-> looped.model]

generate_recommendations(user_profile, jobs, limit, st, mdl, helper, env, completions) ==
    IF jobs = <<>> THEN [raised |-> FALSE, value |-> <<>>, model |-> mdl]
    ELSE sort_and_cut(recommend_from(1, user_profile, jobs, st, mdl, helper, env,
                                     completions),
                      limit)

-----------------------------------------------------------------------------
(* Python dicts.  A dict whose keys are fixed strings is a function on the  *)
(* keys it holds; a dict that the code iterates over is the sequence of its *)
(* items in insertion order, each key once.                                 *)

\* key in index
HasKey(index, key) == \E i \in 1..Len(index) : index[i].key = key

\* index[key], for a key the index holds
Lookup(index, key) == index[CHOOSE i \in 1..Len(index) : index[i].key = key].info

\* index[key] = info: a key the dict holds keeps its place and takes the new value
Put(index, key, info) ==
    IF HasKey(index, key)
    THEN [i \in 1..Len(index) |->
             IF index[i].key = key THEN [key |-> key, info |-> info] ELSE index[i]]
    ELSE Append(index, [key |-> key, info |-> info])

-----------------------------------------------------------------------------
(* SkillAnalyzer._load_skill_taxonomy, lines 42-46: open() raises           *)
(* FileNotFoundError on a missing file, json.load raises JSONDecodeError on *)
(* a malformed one                                                          *)

load_json(file) ==
    IF file.status = "missing"
    THEN [raised |-> TRUE, error |-> "FileNotFoundError", value |-> <<>>]
    ELSE IF file.status = "malformed"
    THEN [raised |-> TRUE, error |-> "JSONDecodeError", value |-> <<>>]
    ELSE [raised |-> FALSE, error |-> "", value |-> file.content]

_load_skill_taxonomy(fs) == load_json(fs.taxonomy)

(* SkillAnalyzer._build_skill_index, lines 48-71 *)

\* lines 55-60 and 64-69: the record stored for a skill
skill_info(category, skill_name, skill_data) ==
    [name |-> skill_name,
     category |-> category,
     synonyms |-> Get(skill_data, "synonyms", <<>>),
     related |-> Get(skill_data, "related", <<>>)]

\* lines 63-69
RECURSIVE add_synonyms(_, _, _)
add_synonyms(index, synonyms, info) ==
    IF synonyms = <<>> THEN index
    ELSE add_synonyms(Put(index, Lower(Head(synonyms)), info), Tail(synonyms), info)

\* lines 54-69 for one skill
add_skill(index, info) ==
    add_synonyms(Put(index, Lower(info.name), info), info.synonyms, info)

\* line 53
RECURSIVE index_skills(_, _, _)
index_skills(index, category, skills) ==
    IF skills = <<>> THEN index
    ELSE index_skills(
             add_skill(index, skill_info(category, Head(skills).name, Head(skills).data)),
             category, Tail(skills))

\* line 52
RECURSIVE index_categories(_, _)
index_categories(index, taxonomy) ==
    IF taxonomy = <<>> THEN index
    ELSE index_categories(
             index_skills(index, Head(taxonomy).category, Head(taxonomy).skills),
             Tail(taxonomy))

_build_skill_index(taxonomy) == index_categories(<<>>, taxonomy)

-----------------------------------------------------------------------------
(* SkillAnalyzer.extract_skills, lines 73-117 *)

\* the characters that the regular expression class \w matches
WordChars ==
    {"a","b","c","d","e","f","g","h","i","j","k","l","m",
     "n","o","p","q","r","s","t","u","v","w","x","y","z",
     "0","1","2","3","4","5","6","7","8","9","_"} \cup DOMAIN UpperToLower

IsWordAt(text, p) == p \in 1..Len(text) /\ text[p] \in WordChars

\* \b between text[p] and text[p + 1]; the ends of the text count as non-word
WordBoundary(text, p) == IsWordAt(text, p) # IsWordAt(text, p + 1)

\* lines 92-93: re.search(r'\b' + re.escape(skill_key) + r'\b', text_lower)
search(skill_key, text_lower) ==
    \E i \in 1..(Len(text_lower) - Len(skill_key) + 1) :
        /\ SubSeq(text_lower, i, i + Len(skill_key) - 1) = skill_key
        /\ WordBoundary(text_lower, i - 1)
        /\ WordBoundary(text_lower, i + Len(skill_key) - 1)

\* lines 95-96 and 114-115: append the name unless the list holds it
append_once(extracted, skill_name) ==
    IF skill_name \in SetOf(extracted) THEN extracted ELSE Append(extracted, skill_name)

\* lines 90-96: the index keys in insertion order, from position k on
RECURSIVE direct_matches(_, _, _, _)
direct_matches(extracted, index, k, text_lower) ==
    IF k > Len(index) THEN extracted
    ELSE direct_matches(
             IF search(index[k].key, text_lower)
             THEN append_once(extracted, index[k].info.name)
             ELSE extracted,
             index, k + 1, text_lower)

\* the first position at which sep occurs in token, 0 if none
Find(token, sep) ==
    IF Contains(token, sep)
    THEN CHOOSE i \in 1..(Len(token) - Len(sep) + 1) :
             /\ SubSeq(token, i, i + Len(sep) - 1) = sep
             /\ \A j \in 1..(i - 1) : SubSeq(token, j, j + Len(sep) - 1) # sep
    ELSE 0

\* token.split(sep)
RECURSIVE Split(_, _)
Split(token, sep) ==
    IF Find(token, sep) = 0 THEN <<token>>
    ELSE <<SubSeq(token, 1, Find(token, sep) - 1)>>
         \o Split(SubSeq(token, Find(token, sep) + Len(sep), Len(token)), sep)

\* lines 104-107: every token split at sep
RECURSIVE SplitAll(_, _)
SplitAll(tokens, sep) ==
    IF tokens = <<>> THEN <<>>
    ELSE Split(Head(tokens), sep) \o SplitAll(Tail(tokens), sep)

\* line 100
separators ==
    << <<",">>, <<" ","a","n","d"," ">>, <<" ","&"," ">>, <<";">>, <<"\n">>, <<"|">> >>

\* lines 101-107
RECURSIVE split_by(_, _)
split_by(tokens, seps) ==
    IF seps = <<>> THEN tokens
    ELSE split_by(SplitAll(tokens, Head(seps)), Tail(seps))

Whitespace == {" ", "\n", "\t"}

\* str.strip()
RECURSIVE Strip(_)
Strip(s) ==
    IF s = <<>> THEN s
    ELSE IF Head(s) \in Whitespace THEN Strip(Tail(s))
    ELSE IF s[Len(s)] \in Whitespace THEN Strip(SubSeq(s, 1, Len(s) - 1))
    ELSE s

\* lines 110-115
RECURSIVE token_matches(_, _, _)
token_matches(extracted, tokens, index) ==
    IF tokens = <<>> THEN extracted
    ELSE token_matches(
             IF HasKey(index, Lower(Strip(Head(tokens))))
             THEN append_once(extracted, Lookup(index, Lower(Strip(Head(tokens)))).name)
             ELSE extracted,
             Tail(tokens), index)

extract_skills(text, index) ==
    IF text = <<>> THEN <<>>
    ELSE token_matches(direct_matches(<<>>, index, 1, Lower(text)),
                       split_by(<<text>>, separators), index)

-----------------------------------------------------------------------------
(* SkillAnalyzer.normalize_skills, lines 119-160 *)

\* lines 140-146 and 151-157
normalized_skill(name, category, synonyms, related) ==
    [name |-> name, category |-> category, synonyms |-> synonyms,
     related |-> related, proficiency |-> "intermediate"]

\* lines 136-147
normalize_known(normalized, seen, skill_info_) ==
    IF skill_info_.name \notin seen
    THEN [normalized |-> Append(normalized,
                            normalized_skill(skill_info_.name, skill_info_.category,
                                             skill_info_.synonyms, skill_info_.related)),
          seen |-> seen \cup {skill_info_.name}]
    ELSE [normalized |-> normalized, seen |-> seen]

\* variant: an unknown name is dropped
normalize_unknown_dropped(normalized, seen, skill) ==
    [normalized |-> normalized, seen |-> seen]

\* lines 149-158
normalize_unknown(normalized, seen, skill) ==
    IF skill \notin seen
    THEN [normalized |-> Append(normalized, normalized_skill(skill, "other", <<>>, <<>>)),
          seen |-> seen \cup {skill}]
    ELSE [normalized |-> normalized, seen |-> seen]

\* lines 132-158
RECURSIVE normalize_from(_, _, _)
normalize_from(acc, skills, index) ==
    IF skills = <<>> THEN acc.normalized
    ELSE normalize_from(
             IF HasKey(index, Lower(Head(skills)))
             THEN normalize_known(acc.normalized, acc.seen, Lookup(index, Lower(Head(skills))))
             ELSE normalize_unknown(acc.normalized, acc.seen, Head(skills)),
             Tail(skills), index)

normalize_skills(skills, index) ==
    normalize_from([normalized |-> <<>>, seen |-> {}], skills, index)

-----------------------------------------------------------------------------
(* SkillAnalyzer.get_skill_category, lines 206-219 *)

get_skill_category(skill, index) ==
    IF HasKey(index, Lower(skill)) THEN Lookup(index, Lower(skill)).category ELSE "other"

(* SkillAnalyzer.get_related_skills, lines 221-234 *)

get_related_skills(skill, index) ==
    IF HasKey(index, Lower(skill)) THEN Lookup(index, Lower(skill)).related ELSE <<>>

(* SkillAnalyzer._calculate_impact, lines 305-326 *)

\* variant: the thresholds are exclusive
_calculate_impact_exclusive(frequency, total_jobs) ==
    IF total_jobs = 0 THEN "low"
    ELSE IF RLt(Rat(50, 1), RMul(Rat(frequency, total_jobs), Rat(100, 1))) THEN "high"
    ELSE IF RLt(Rat(25, 1), RMul(Rat(frequency, total_jobs), Rat(100, 1))) THEN "medium"
    ELSE "low"

_calculate_impact(frequency, total_jobs) ==
    IF total_jobs = 0 THEN "low"
    ELSE IF RLe(Rat(50, 1), RMul(Rat(frequency, total_jobs), Rat(100, 1))) THEN "high"
    ELSE IF RLe(Rat(25, 1), RMul(Rat(frequency, total_jobs), Rat(100, 1))) THEN "medium"
    ELSE "low"

(* SkillAnalyzer.identify_skill_gaps, lines 236-303 *)

\* variant: the synonyms of the record are not looked at
has_skill_exact(req_skill_lower, user_skills_normalized, index) ==
    req_skill_lower \in user_skills_normalized

\* lines 258-268: the user has the required skill, or a synonym of its record
has_skill(req_skill_lower, user_skills_normalized, index) ==
    \/ req_skill_lower \in user_skills_normalized
    \/ /\ HasKey(index, req_skill_lower)
       /\ \E i \in 1..Len(Lookup(index, req_skill_lower).synonyms) :
              Lower(Lookup(index, req_skill_lower).synonyms[i]) \in user_skills_normalized

\* lines 272-274
gap_name(req_skill, index) ==
    IF HasKey(index, Lower(req_skill)) THEN Lookup(index, Lower(req_skill)).name
    ELSE req_skill

\* lines 276-278: skill_frequency[skill_name] += 1, a new name starting at 0
count_missing(skill_frequency, skill_name) ==
    IF HasKey(skill_frequency, skill_name)
    THEN Put(skill_frequency, skill_name, Lookup(skill_frequency, skill_name) + 1)
    ELSE Put(skill_frequency, skill_name, 1)

\* lines 255-278
RECURSIVE tally_missing(_, _, _, _)
tally_missing(skill_frequency, job_requirements, user_skills_normalized, index) ==
    IF job_requirements = <<>> THEN skill_frequency
    ELSE tally_missing(
             IF has_skill(Lower(Head(job_requirements)), user_skills_normalized, index)
             THEN skill_frequency
             ELSE count_missing(skill_frequency, gap_name(Head(job_requirements), index)),
             Tail(job_requirements), user_skills_normalized, index)

\* variant: an item goes before the items of equal frequency
insert_by_frequency_ties_reversed(sorted, item) ==
    LET before == {k \in 1..Len(sorted) : sorted[k].info > item.info}
        n == Cardinality(before)
    IN  SubSeq(sorted, 1, n) \o <<item>> \o SubSeq(sorted, n + 1, Len(sorted))

\* lines 286-287: sorted(items, key=frequency, reverse=True) is stable: an item
\* goes after the items of greater or equal frequency
insert_by_frequency(sorted, item) ==
    LET before == {k \in 1..Len(sorted) : sorted[k].info >= item.info}
        n == Cardinality(before)
    IN  SubSeq(sorted, 1, n) \o <<item>> \o SubSeq(sorted, n + 1, Len(sorted))

RECURSIVE sort_by_frequency(_)
sort_by_frequency(items) ==
    IF items = <<>> THEN <<>>
    ELSE insert_by_frequency(sort_by_frequency(SubSeq(items, 1, Len(items) - 1)),
                             items[Len(items)])

Default == <<"d","e","f","a","u","l","t">>

\* lines 289-290
resources_for(skill_name, learning_resources) ==
    Get(learning_resources, skill_name, Get(learning_resources, Default, <<>>))

\* lines 292-299
gap_info(skill_name, frequency, total_jobs, resources, index) ==
    [skill |-> skill_name,
     frequency |-> frequency,
     impact |-> _calculate_impact(frequency, total_jobs),
     category |-> get_skill_category(skill_name, index),
     learning_time |-> Get(resources, "estimated_learning_time", "varies"),
     resources |-> Get(resources, "resources", <<>>)]

\* lines 286-301
gap_list(ranked, total_jobs, learning_resources, index) ==
    [k \in 1..Len(ranked) |->
        gap_info(ranked[k].key, ranked[k].info, total_jobs,
                 resources_for(ranked[k].key, learning_resources), index)]

\* lines 280-303
gaps_with_resources(skill_frequency, total_jobs, loaded, index) ==
    IF loaded.raised
    THEN [raised |-> TRUE, error |-> loaded.error, value |-> <<>>]
    ELSE [raised |-> FALSE, error |-> "",
          value |-> gap_list(sort_by_frequency(skill_frequency), total_jobs,
                             loaded.value, index)]

identify_skill_gaps(user_skills, job_requirements, index, fs) ==
    gaps_with_resources(
        tally_missing(<<>>, job_requirements, SetOf(LowerAll(user_skills)), index),
        Len(job_requirements), load_json(fs.resources), index)

-----------------------------------------------------------------------------
(* Taxonomies, learning resources, texts and requirement lists *)

p3 == <<"p","3">>
Js == <<"J","s">>
Go == <<"G","o">>
Pys == <<"P","y","s">>

\* {"synonyms": [...], "related": [...]}, either key possibly left out
SkillData(synonyms, related) == [synonyms |-> synonyms, related |-> related]
RelatedOnly(related) == [related |-> related]

Skill(name, data) == [name |-> name, data |-> data]
Category(category, skills) == [category |-> category, skills |-> skills]

\* the key "py" is held by Py alone
PlainTaxonomy ==
    << Category("languages", << Skill(Py, SkillData(<<p3>>, <<Js>>)),
                                Skill(Cpp, SkillData(<<>>, <<>>)) >>),
       Category("frameworks", << Skill(Js, RelatedOnly(<<Py>>)) >>) >>

\* Js has the synonym "py", which is also the lowercase name of Py
AliasTaxonomy ==
    << Category("languages", << Skill(Py, SkillData(<<p3>>, <<>>)) >>),
       Category("frameworks", << Skill(Js, SkillData(<<py>>, <<>>)) >>) >>

\* the name Py is in two categories
TwoCategoryTaxonomy ==
    << Category("languages", << Skill(Py, SkillData(<<p3>>, <<>>)) >>),
       Category("tools", << Skill(Py, SkillData(<<>>, <<Js>>)) >>) >>

RequestTaxonomies == {PlainTaxonomy, AliasTaxonomy, TwoCategoryTaxonomy}

\* every taxonomy within the bounds: category names and, in a category, skill
\* names are dict keys, hence distinct
TaxonomyNames == {Py, py, Js}
TaxonomySynonyms == {py, p3}

TaxonomySkills ==
    {Skill(n, SkillData(syn, <<>>)) :
        n \in TaxonomyNames, syn \in ListsUpTo(TaxonomySynonyms, MaxSynonyms)}

DistinctNames(skills) ==
    \A i, j \in 1..Len(skills) : i # j => skills[i].name # skills[j].name

CategorySkillLists ==
    {l \in ListsUpTo(TaxonomySkills, MaxCategorySkills) : DistinctNames(l)}

CategoryNames == <<"languages", "frameworks", "tools", "platforms">>

RECURSIVE TaxonomiesOf(_)
TaxonomiesOf(n) ==
    IF n = 0 THEN {<<>>}
    ELSE {Append(t, Category(CategoryNames[n], l)) :
             t \in {u \in TaxonomiesOf(n - 1) : Len(u) = n - 1}, l \in CategorySkillLists}
         \cup TaxonomiesOf(n - 1)

Taxonomies == TaxonomiesOf(MaxCategories)

\* learning_resources.json: skill name -> {estimated_learning_time, resources}
LearningResources ==
    (Js :> [estimated_learning_time |-> "2 weeks", resources |-> <<"course">>])
    @@ (Default :> [resources |-> <<"search">>])

JsonFile(content) == [status |-> "ok", content |-> content]
Missing == [status |-> "missing", content |-> <<>>]
Malformed == [status |-> "malformed", content |-> <<>>]

TaxonomyFiles(taxonomies) == {Missing, Malformed} \cup {JsonFile(t) : t \in taxonomies}
ResourceFiles == {Missing, Malformed, JsonFile(LearningResources)}

\* the skills named in texts and lists: names, synonyms, case variants, a
\* name that is not in any taxonomy, a word that starts with a name
TextItems == {Py, py, p3, Cpp, Pys}
TextPrefixes == {<<>>, <<"I"," ","k","n","o","w"," ">>}
TextSuffixes == {<<>>, <<" ","w","e","l","l">>}
ItemSeparators == SetOf(separators) \cup {<<" ">>, <<",", " ">>}

RECURSIVE ItemTexts(_)
ItemTexts(n) ==
    IF n <= 1 THEN TextItems
    ELSE ItemTexts(n - 1)
         \cup {t \o s \o i : t \in ItemTexts(n - 1), s \in ItemSeparators, i \in TextItems}

Texts ==
    {<<>>} \cup {p \o t \o s : p \in TextPrefixes, t \in ItemTexts(MaxItems), s \in TextSuffixes}

RequirementNames == {Py, p3, Cpp, Js, Go}
RequirementLists == ListsUpTo(RequirementNames, MaxRequirements)
HeldSkillLists == ListsUpTo({Py, p3, Js}, 1)

-----------------------------------------------------------------------------
(* Profiles and postings *)

Amounts == {None} \cup {Some(v) : v \in 0..MaxSalary}

\* min <= max when both are present
WellFormed(lo, hi) == (lo # None /\ hi # None) => lo[1] <= hi[1]

NY == <<"N","Y">>
LA == <<"L","A">>
ny_usa == <<"n","y",","," ","u","s","a">>
Junior_Dev == <<"J","u","n","i","o","r"," ","D","e","v">>
Principal_Engineer == <<"P","r","i","n","c","i","p","a","l">>
Senior_Dev == <<"S","e","n","i","o","r"," ","D","e","v">>

ScoreAmounts == {None, Some(1), Some(MaxSalary)}

ScoreProfiles ==
    {p \in [skills : {<<py>>},
            experience_years : {1, 5},
            preferred_locations : {<<>>, <<NY>>},
            salary_min : ScoreAmounts,
            salary_max : ScoreAmounts] : WellFormed(p.salary_min, p.salary_max)}

ScorePostings ==
    {j \in [id : {0},
            requirements : {<<>>, <<Py>>, <<Cpp>>},
            description : {<<>>, Junior_Dev, Principal_Engineer},
            location : {ny_usa, LA},
            remote : BOOLEAN,
            salary_min : ScoreAmounts,
            salary_max : ScoreAmounts] : WellFormed(j.salary_min, j.salary_max)}

\* the dict d without the keys in absent
Without(d, absent) == [k \in DOMAIN d \ absent |-> d[k]]

\* profiles and postings in which optional fields are left out or null
SparseProfiles ==
    {Without(p, absent) :
        p \in [skills : {<<py>>},
               experience_years : {5},
               preferred_locations : {<<>>, <<NY>>},
               salary_min : {None, Some(1)},
               salary_max : {None, Some(MaxSalary)}],
        absent \in SUBSET {"salary_min", "salary_max", "preferred_locations"}}

SparsePostings ==
    {Without(j, absent) :
        j \in [id : {0},
               requirements : {<<Py>>},
               description : {Junior_Dev},
               location : {ny_usa},
               remote : BOOLEAN,
               salary_min : {None, Some(1)},
               salary_max : {None, Some(MaxSalary)}],
        absent \in SUBSET {"salary_min", "salary_max"}}

\* the profiles and the postings of the recommendation requests
RecProfiles ==
    [skills : {<<py>>},
     experience_years : {5},
     preferred_locations : {<<NY>>},
     salary_min : {Some(1)},
     salary_max : {Some(MaxSalary)}]

Posting(id, requirements, description, location, remote, salary_min, salary_max) ==
    [id |-> id, requirements |-> requirements, description |-> description,
     location |-> location, remote |-> remote,
     salary_min |-> salary_min, salary_max |-> salary_max]

\* postings 1 and 2 differ in their id only and have four factors of 1.0;
\* the profile holds one of the three requirements of posting 4
RecPostings ==
    {Posting(1, <<Py>>, Senior_Dev, ny_usa, FALSE, Some(1), Some(MaxSalary)),
     Posting(2, <<Py>>, Senior_Dev, ny_usa, FALSE, Some(1), Some(MaxSalary)),
     Posting(3, <<Cpp>>, Principal_Engineer, LA, FALSE, None, None),
     Posting(4, <<Py, Cpp, Cpp>>, <<>>, LA, TRUE, Some(1), Some(1))}

\* the lists of at most n postings with distinct ids
JobLists(n) == {l \in ListsUpTo(RecPostings, n) :
                   \A i, j \in 1..Len(l) : i # j => l[i].id # l[j].id}

Limits == (-MaxLimit)..MaxLimit

\* one completion per posting; none is asked for without an available helper
CompletionLists(helper, n) ==
    IF helper.present /\ helper.available
    THEN [1..n -> Completions]
    ELSE [1..n -> {"none"}]

-----------------------------------------------------------------------------
(* State machine: a caller invokes an operation with its arguments (Invoke), *)
(* the operation runs to its return, the caller takes the result (Return).   *)
(* What the external libraries do during the call is drawn with the          *)
(* arguments and kept in the call record.                                    *)

NoCall == [op |-> "none"]
NoResult == [raised |-> FALSE]
NoMemo == [call |-> NoCall, result |-> NoResult]
NoFetcher == [adzuna_client |-> FALSE, jsearch_client |-> FALSE]

\* no call is remembered, there is no job fetcher and no concurrent caller
CoreOnly ==
    /\ memo = NoMemo
    /\ job_fetcher = NoFetcher
    /\ cache = <<>>
    /\ callers = <<>>
    /\ instances = 0

NoHelper == [present |-> FALSE, available |-> FALSE]

\* an engine constructed with the default openai_helper=None
Init ==
    /\ files = [taxonomy |-> JsonFile(PlainTaxonomy),
                resources |-> JsonFile(LearningResources)]
    /\ skill_taxonomy = PlainTaxonomy
    /\ skill_index = _build_skill_index(PlainTaxonomy)
    /\ SentenceTransformer \in {"None", "class"}
    /\ model = None
    /\ CoreOnly
    /\ openai_helper = NoHelper
    /\ pc = "idle"
    /\ call = NoCall
    /\ result = NoResult

CompareSkillsCalls ==
    [op : {"_compare_skills"}, user_skills : SkillLists, job_skills : SkillLists]

SkillSimilarityCalls ==
    [op : {"_skill_similarity"}, user_skills : SkillLists, job_skills : SkillLists,
     env : EmbedEnvs(SentenceTransformer, model)]

SalaryMatchCalls ==
    [op : {"_salary_match"}, user_min : Amounts, user_max : Amounts,
     job_min : Amounts, job_max : Amounts]

ComputeMatchScoreCalls ==
    [op : {"compute_match_score"}, user_profile : ScoreProfiles, job : ScorePostings,
     env : EmbedEnvs(SentenceTransformer, model)]
    \cup [op : {"compute_match_score"}, user_profile : SparseProfiles,
          job : SparsePostings, env : EmbedEnvs(SentenceTransformer, model)]

\* the score of one posting of the recommendation requests
RecScoreCalls ==
    [op : {"compute_match_score"}, user_profile : RecProfiles, job : RecPostings,
     env : EmbedEnvs(SentenceTransformer, model)]

GenerateRecommendationsCalls ==
    UNION {[op : {"generate_recommendations"}, user_profile : RecProfiles,
            jobs : {jobs}, limit : Limits,
            env : EmbedEnvs(SentenceTransformer, model),
            completions : CompletionLists(openai_helper, Len(jobs))] :
           jobs \in JobLists(MaxJobs)}

\* the call returns r.value (or raises) and leaves the analyzer with r.model
Returns(r) ==
    /\ result' = [raised |-> r.raised, value |-> r.value]
    /\ model' = r.model

Invoke(calls) ==
    /\ pc = "idle"
    /\ call' \in calls
    /\ pc' = "called"
    /\ UNCHANGED <<memo, fetcher_vars, caller_vars, files, skill_taxonomy, skill_index, SentenceTransformer, model, openai_helper, result>>

\* the caller takes the returned value; the analyzer keeps its model
Return ==
    /\ pc = "done"
    /\ pc' = "idle"
    /\ call' = NoCall
    /\ result' = NoResult
    /\ UNCHANGED <<memo, fetcher_vars, caller_vars, files, skill_taxonomy, skill_index, SentenceTransformer, model, openai_helper>>

CompareSkills ==
    /\ pc = "called"
    /\ call.op = "_compare_skills"
    /\ result' = [raised |-> FALSE,
                  value |-> _compare_skills(call.user_skills, call.job_skills)]
    /\ pc' = "done"
    /\ UNCHANGED <<memo, fetcher_vars, caller_vars, files, skill_taxonomy, skill_index, SentenceTransformer, model, openai_helper, call>>

SkillSimilarity ==
    /\ pc = "called"
    /\ call.op = "_skill_similarity"
    /\ Returns(_skill_similarity(call.user_skills, call.job_skills,
                                 SentenceTransformer, model, call.env))
    /\ pc' = "done"
    /\ UNCHANGED <<memo, fetcher_vars, caller_vars, files, skill_taxonomy, skill_index, SentenceTransformer, openai_helper, call>>

SalaryMatch ==
    /\ pc = "called"
    /\ call.op = "_salary_match"
    /\ result' = [raised |-> FALSE,
                  value |-> _salary_match(call.user_min, call.user_max,
                                          call.job_min, call.job_max)]
    /\ pc' = "done"
    /\ UNCHANGED <<memo, fetcher_vars, caller_vars, files, skill_taxonomy, skill_index, SentenceTransformer, model, openai_helper, call>>

ComputeMatchScore ==
    /\ pc = "called"
    /\ call.op = "compute_match_score"
    /\ Returns(compute_match_score(call.user_profile, call.job,
                                   SentenceTransformer, model, call.env))
    /\ pc' = "done"
    /\ UNCHANGED <<memo, fetcher_vars, caller_vars, files, skill_taxonomy, skill_index, SentenceTransformer, openai_helper, call>>

GenerateRecommendations ==
    /\ pc = "called"
    /\ call.op = "generate_recommendations"
    /\ Returns(generate_recommendations(call.user_profile, call.jobs, call.limit,
                   SentenceTransformer, model, openai_helper, call.env,
                   call.completions))
    /\ pc' = "done"
    /\ UNCHANGED <<memo, fetcher_vars, caller_vars, files, skill_taxonomy, skill_index, SentenceTransformer, openai_helper, call>>

NextSkills ==
    \/ Invoke(CompareSkillsCalls \cup SkillSimilarityCalls)
    \/ CompareSkills
    \/ SkillSimilarity
    \/ Return

SpecSkills == Init /\ [][NextSkills]_vars

NextScore ==
    \/ Invoke(SalaryMatchCalls \cup ComputeMatchScoreCalls)
    \/ SalaryMatch
    \/ ComputeMatchScore
    \/ Return

SpecScore == Init /\ [][NextScore]_vars

\* a deployment without the sentence-transformers library; the engine was
\* constructed without a helper, with one that found no API key or no client
\* library, or with one whose client is ready
InitRecommend ==
    /\ files = [taxonomy |-> JsonFile(PlainTaxonomy),
                resources |-> JsonFile(LearningResources)]
    /\ skill_taxonomy = PlainTaxonomy
    /\ skill_index = _build_skill_index(PlainTaxonomy)
    /\ SentenceTransformer = "None"
    /\ model = None
    /\ CoreOnly
    /\ openai_helper \in {NoHelper,
                          [present |-> TRUE, available |-> FALSE],
                          [present |-> TRUE, available |-> TRUE]}
    /\ pc = "idle"
    /\ call = NoCall
    /\ result = NoResult

NextRecommend ==
    \/ Invoke(GenerateRecommendationsCalls \cup RecScoreCalls)
    \/ GenerateRecommendations
    \/ ComputeMatchScore
    \/ Return

SpecRecommend == InitRecommend /\ [][NextRecommend]_vars

-----------------------------------------------------------------------------
(* The explanation of one recommendation *)

\* the names "s1", "s2", ... of n skills
Names(n) == [i \in 1..n |-> <<"s">> \o Str(i)]

\* the first k of them, for every k up to MaxListed
NameLists == {Slice(Names(MaxListed), k) : k \in 0..MaxListed}

\* scores around the two thresholds of the prefix
ExplainScores == {Zero, Rat(5999, 100), Rat(60, 1), Rat(7999, 100), Rat(80, 1), Rat(100, 1)}

ExplainProfiles ==
    {Without([skills |-> <<py>>,
              experience_years |-> y,
              preferred_locations |-> <<NY>>,
              salary_min |-> None,
              salary_max |-> None], absent) :
        y \in 0..MaxExperience, absent \in {{}, {"experience_years"}}}

ExplainPostings ==
    {Without(Posting(1, <<Py>>, <<>>, LA, r, None, None), absent) :
        r \in BOOLEAN, absent \in {{}, {"remote"}}}

GenerateExplanationCalls ==
    [op : {"_generate_explanation"},
     score : ExplainScores,
     matching_skills : NameLists,
     missing_skills : NameLists,
     user_profile : ExplainProfiles,
     job : ExplainPostings,
     completion : IF openai_helper.present /\ openai_helper.available
                  THEN Completions ELSE {"none"}]

GenerateExplanation ==
    /\ pc = "called"
    /\ call.op = "_generate_explanation"
    /\ result' = _generate_explanation(call.score, call.matching_skills,
                                       call.missing_skills, call.user_profile,
                                       call.job, openai_helper, call.completion)
    /\ pc' = "done"
    /\ UNCHANGED <<memo, fetcher_vars, caller_vars, files, skill_taxonomy, skill_index, SentenceTransformer, model, openai_helper, call>>

NextExplain ==
    \/ Invoke(GenerateExplanationCalls)
    \/ GenerateExplanation
    \/ Return

SpecExplain == InitRecommend /\ [][NextExplain]_vars

-----------------------------------------------------------------------------
(* SkillAnalyzer: construction and requests *)

\* before SkillAnalyzer() is called
Unconstructed(taxonomies) ==
    /\ files \in [taxonomy : TaxonomyFiles(taxonomies), resources : ResourceFiles]
    /\ skill_taxonomy = <<>>
    /\ skill_index = <<>>
    /\ SentenceTransformer = "None"
    /\ model = None
    /\ CoreOnly
    /\ openai_helper = NoHelper
    /\ pc = "new"
    /\ call = NoCall
    /\ result = NoResult

InitAnalyzer == Unconstructed(RequestTaxonomies)

InitIndex == Unconstructed(Taxonomies)

\* SkillAnalyzer.__init__, lines 24-34: the taxonomy is loaded and indexed; an
\* exception of the load leaves the constructor
Constructed(loaded) ==
    IF loaded.raised
    THEN /\ pc' = "failed"
         /\ call' = [op |-> "__init__"]
         /\ result' = [raised |-> TRUE, error |-> loaded.error]
         /\ UNCHANGED <<skill_taxonomy, skill_index>>
    ELSE /\ pc' = "idle"
         /\ call' = NoCall
         /\ result' = NoResult
         /\ skill_taxonomy' = loaded.value
         /\ skill_index' = _build_skill_index(loaded.value)

SkillAnalyzerInit ==
    /\ pc = "new"
    /\ Constructed(_load_skill_taxonomy(files))
    /\ model' = None
    /\ UNCHANGED <<memo, fetcher_vars, caller_vars, files, SentenceTransformer, openai_helper>>

ExtractSkillsCalls == [op : {"extract_skills"}, text : Texts]

NormalizeSkillsCalls == [op : {"normalize_skills"}, skills : RequirementLists]

IdentifySkillGapsCalls ==
    [op : {"identify_skill_gaps"}, user_skills : HeldSkillLists,
     job_requirements : RequirementLists]

ExtractSkills ==
    /\ pc = "called"
    /\ call.op = "extract_skills"
    /\ result' = [raised |-> FALSE, value |-> extract_skills(call.text, skill_index)]
    /\ pc' = "done"
    /\ UNCHANGED <<memo, fetcher_vars, caller_vars, files, skill_taxonomy, skill_index, SentenceTransformer, model, openai_helper, call>>

\* variant: the first skill of the list is registered in the index
NormalizeSkills_registering ==
    /\ pc = "called"
    /\ call.op = "normalize_skills"
    /\ result' = [raised |-> FALSE, value |-> normalize_skills(call.skills, skill_index)]
    /\ skill_index' =
          IF call.skills = <<>> THEN skill_index
          ELSE Put(skill_index, Lower(call.skills[1]),
                   [name |-> call.skills[1], category |-> "other",
                    synonyms |-> <<>>, related |-> <<>>])
    /\ pc' = "done"
    /\ UNCHANGED <<memo, fetcher_vars, caller_vars, files, skill_taxonomy, SentenceTransformer, model, openai_helper, call>>

NormalizeSkills ==
    /\ pc = "called"
    /\ call.op = "normalize_skills"
    /\ result' = [raised |-> FALSE, value |-> normalize_skills(call.skills, skill_index)]
    /\ pc' = "done"
    /\ UNCHANGED <<memo, fetcher_vars, caller_vars, files, skill_taxonomy, skill_index, SentenceTransformer, model, openai_helper, call>>

IdentifySkillGaps ==
    /\ pc = "called"
    /\ call.op = "identify_skill_gaps"
    /\ result' = identify_skill_gaps(call.user_skills, call.job_requirements,
                                     skill_index, files)
    /\ pc' = "done"
    /\ UNCHANGED <<memo, fetcher_vars, caller_vars, files, skill_taxonomy, skill_index, SentenceTransformer, model, openai_helper, call>>

LookupCalls ==
    [op : {"get_skill_category", "get_related_skills"}, skill : RequirementNames \cup {py}]

GetSkillCategory ==
    /\ pc = "called"
    /\ call.op = "get_skill_category"
    /\ result' = [raised |-> FALSE, value |-> get_skill_category(call.skill, skill_index)]
    /\ pc' = "done"
    /\ UNCHANGED <<memo, fetcher_vars, caller_vars, files, skill_taxonomy, skill_index, SentenceTransformer, model, openai_helper, call>>

GetRelatedSkills ==
    /\ pc = "called"
    /\ call.op = "get_related_skills"
    /\ result' = [raised |-> FALSE, value |-> get_related_skills(call.skill, skill_index)]
    /\ pc' = "done"
    /\ UNCHANGED <<memo, fetcher_vars, caller_vars, files, skill_taxonomy, skill_index, SentenceTransformer, model, openai_helper, call>>

\* a few calls of each operation; what the library would do in the call is
\* part of the call, whether or not the call comes to ask for it
RepeatedCalls ==
    [op : {"extract_skills"}, text : {<<>>} \cup ItemTexts(1)]
    \cup [op : {"normalize_skills"}, skills : ListsUpTo(RequirementNames, 1)]
    \cup [op : {"identify_skill_gaps"}, user_skills : HeldSkillLists,
           job_requirements : ListsUpTo({Py, Cpp}, 2)]
    \cup [op : {"compute_match_score"}, user_profile : RecProfiles, job : RecPostings,
           env : IF SentenceTransformer = "None" THEN {NoFailure} ELSE EmbedOutcomes]

\* the caller takes the result and keeps it together with the call
Remember ==
    /\ pc = "done"
    /\ memo' = [call |-> call, result |-> result]
    /\ pc' = "idle"
    /\ UNCHANGED <<fetcher_vars, caller_vars, files, skill_taxonomy, skill_index, SentenceTransformer, model, openai_helper, call, result>>

NextRepeated ==
    \/ Invoke(RepeatedCalls)
    \/ ExtractSkills
    \/ NormalizeSkills
    \/ IdentifySkillGaps
    \/ ComputeMatchScore
    \/ Return
    \/ Remember

SpecRepeated == Init /\ [][NextRepeated]_vars

NextIndex == SkillAnalyzerInit

SpecIndex == InitIndex /\ [][NextIndex]_vars

NextExtract ==
    \/ SkillAnalyzerInit
    \/ Invoke(ExtractSkillsCalls)
    \/ ExtractSkills
    \/ Return

SpecExtract == InitAnalyzer /\ [][NextExtract]_vars

CalculateImpactCalls ==
    [op : {"_calculate_impact"}, frequency : 0..MaxRequirements, total_jobs : 0..MaxTotal]

CalculateImpact ==
    /\ pc = "called"
    /\ call.op = "_calculate_impact"
    /\ result' = [raised |-> FALSE,
                  value |-> _calculate_impact(call.frequency, call.total_jobs)]
    /\ pc' = "done"
    /\ UNCHANGED <<memo, fetcher_vars, caller_vars, files, skill_taxonomy, skill_index, SentenceTransformer, model, openai_helper, call>>

NextGaps ==
    \/ SkillAnalyzerInit
    \/ Invoke(NormalizeSkillsCalls \cup IdentifySkillGapsCalls \cup CalculateImpactCalls)
    \/ NormalizeSkills
    \/ IdentifySkillGaps
    \/ CalculateImpact
    \/ Return

SpecGaps == InitAnalyzer /\ [][NextGaps]_vars

\* every operation of the analyzer, and the scoring that uses it
NextAnalyzer ==
    \/ SkillAnalyzerInit
    \/ Invoke(ExtractSkillsCalls \cup NormalizeSkillsCalls \cup IdentifySkillGapsCalls
               \cup LookupCalls \cup RecScoreCalls)
    \/ ExtractSkills
    \/ NormalizeSkills
    \/ IdentifySkillGaps
    \/ GetSkillCategory
    \/ GetRelatedSkills
    \/ ComputeMatchScore
    \/ Return

SpecAnalyzer == InitAnalyzer /\ [][NextAnalyzer]_vars

-----------------------------------------------------------------------------
(* The experience and location factors called on their own *)

ny == <<"n","y">>
NYC == <<"N","Y","C">>

PreferredLocations == ListsUpTo({NY, ny, LA, <<>>}, MaxLocations)
JobLocations == {ny_usa, NYC, LA, <<>>}

Descriptions ==
    {<<>>, Junior_Dev, Principal_Engineer,
     <<"E","n","t","r","y"," ","L","e","v","e","l"," ","r","o","l","e">>,
     <<"J","u","n","i","o","r"," ","a","n","d"," ","S","e","n","i","o","r">>,
     <<"M","i","d"," ","l","e","v","e","l">>,
     <<"i","n","t","e","r","m","e","d","i","a","t","e">>,
     <<"S","e","n","i","o","r"," ","D","e","v">>,
     <<"T","e","a","m"," ","L","e","a","d">>,
     <<"S","t","a","f","f">>,
     <<"D","e","v","e","l","o","p","e","r">>}

LocationMatchCalls ==
    [op : {"_location_match"}, preferred_locations : PreferredLocations,
     job_location : JobLocations, is_remote : BOOLEAN]

ExperienceMatchCalls ==
    [op : {"_experience_match"}, user_exp : 0..MaxExperience,
     job_description : Descriptions]

LocationMatch ==
    /\ pc = "called"
    /\ call.op = "_location_match"
    /\ result' = [raised |-> FALSE,
                  value |-> _location_match(call.preferred_locations,
                                            call.job_location, call.is_remote)]
    /\ pc' = "done"
    /\ UNCHANGED <<memo, fetcher_vars, caller_vars, files, skill_taxonomy, skill_index, SentenceTransformer, model, openai_helper, call>>

ExperienceMatch ==
    /\ pc = "called"
    /\ call.op = "_experience_match"
    /\ result' = [raised |-> FALSE,
                  value |-> _experience_match(call.user_exp, call.job_description)]
    /\ pc' = "done"
    /\ UNCHANGED <<memo, fetcher_vars, caller_vars, files, skill_taxonomy, skill_index, SentenceTransformer, model, openai_helper, call>>

\* a text of n characters
Filler(n) == [i \in 1..n |-> "x"]

\* postings for the confidence: descriptions of 0, 10, 100 and 101 characters
ConfidencePostings ==
    [id : {0},
     requirements : {<<>>, <<Py>>},
     description : {<<>>, Junior_Dev, Filler(100), Filler(101)},
     location : {LA},
     remote : {FALSE},
     salary_min : Amounts,
     salary_max : Amounts]

CalculateConfidenceCalls == [op : {"_calculate_confidence"}, job : ConfidencePostings]

CalculateConfidence ==
    /\ pc = "called"
    /\ call.op = "_calculate_confidence"
    /\ result' = [raised |-> FALSE, value |-> _calculate_confidence(call.job)]
    /\ pc' = "done"
    /\ UNCHANGED <<memo, fetcher_vars, caller_vars, files, skill_taxonomy, skill_index, SentenceTransformer, model, openai_helper, call>>

NextFactors ==
    \/ Invoke(LocationMatchCalls \cup ExperienceMatchCalls \cup CalculateConfidenceCalls)
    \/ LocationMatch
    \/ ExperienceMatch
    \/ CalculateConfidence
    \/ Return

SpecFactors == Init /\ [][NextFactors]_vars

-----------------------------------------------------------------------------
(* backend/job_fetcher/job_fetcher.py: the two API clients, the file cache   *)
(* and JobFetcher.fetch_jobs.  What a job board answers and whether a cache  *)
(* file can be read or written is drawn with the call.                       *)

Acme == <<"A","c","m","e">>

\* the k-th posting of each board, as the clients normalise it; the first
\* postings of the two boards have the same title and company up to letter
\* case and surrounding blanks
AdzunaJob(k) ==
    [id |-> k, title |-> <<"D","e","v"," ">> \o Str(k), company |-> Acme, source |-> "adzuna"]

JSearchJob(k) ==
    [id |-> k,
     title |-> IF k = 1 THEN <<" ","d","e","v"," ","1"," ">> ELSE <<"O","p","s"," ">> \o Str(k),
     company |-> Acme, source |-> "jsearch"]

Failed(status) == [status |-> status, jobs |-> <<>>]

\* Adzuna is asked for results_per_page = min(limit, 50) and answers with at
\* most that many postings, or the request times out or fails
AdzunaResponses(limit) ==
    {Failed("timeout"), Failed("error")}
    \cup {[status |-> "ok", jobs |-> [k \in 1..n |-> AdzunaJob(k)]] :
             n \in 0..(IF limit < MaxApiJobs THEN limit ELSE MaxApiJobs)}

\* JSearch answers with one page, whatever the limit
JSearchResponses ==
    {Failed("timeout"), Failed("error")}
    \cup {[status |-> "ok", jobs |-> [k \in 1..n |-> JSearchJob(k)]] : n \in 0..MaxApiJobs}

\* AdzunaClient.search_jobs, lines 27-68: every exception gives []
AdzunaClient_search_jobs(response) ==
    IF response.status = "ok" THEN response.jobs ELSE <<>>

\* JSearchClient.search_jobs, lines 115-157: data[:limit]
JSearchClient_search_jobs(response, limit) ==
    IF response.status = "ok" THEN Slice(response.jobs, limit) ELSE <<>>

\* JobCache.get, lines 189-210; the file name is the digest of the key, taken
\* here to be the key itself.  read: "fresh", "expired" (older than the ttl)
\* or "error" (the file cannot be read or parsed)
JobCache_get(cache_dir, key, read) ==
    IF key \notin DOMAIN cache_dir THEN [value |-> None, cache |-> cache_dir]
    ELSE IF read = "error" THEN [value |-> None, cache |-> cache_dir]
    ELSE IF read = "expired"
    THEN \* cache_file.unlink()
         [value |-> None,
          cache |-> [k \in (DOMAIN cache_dir) \ {key} |-> cache_dir[k]]]
    ELSE [value |-> Some(cache_dir[key].jobs), cache |-> cache_dir]

\* JobCache.set, lines 212-227: a failure to write is logged, the file is as
\* it was
JobCache_set(cache_dir, key, jobs, write) ==
    IF write = "ok"
    THEN [k \in (DOMAIN cache_dir) \cup {key} |->
             IF k = key THEN [key |-> key, jobs |-> jobs] ELSE cache_dir[k]]
    ELSE cache_dir

\* JobFetcher.__init__, lines 236-251
JobFetcherInit(config) ==
    [adzuna_client |-> config.adzuna_app_id # "" /\ config.adzuna_app_key # "",
     jsearch_client |-> config.rapidapi_key # ""]

\* lines 306-309
dedup_key(job) == <<Strip(Lower(job.title)), Strip(Lower(job.company))>>

\* JobFetcher._deduplicate_jobs, lines 300-317
RECURSIVE unique_from(_, _, _)
unique_from(unique_jobs, seen, jobs) ==
    IF jobs = <<>> THEN unique_jobs
    ELSE IF dedup_key(Head(jobs)) \in seen
    THEN unique_from(unique_jobs, seen, Tail(jobs))
    ELSE unique_from(Append(unique_jobs, Head(jobs)),
                     seen \cup {dedup_key(Head(jobs))}, Tail(jobs))

_deduplicate_jobs(jobs) == unique_from(<<>>, {}, jobs)

\* line 266: f"{query}_{location}_{limit}"
cache_key(query, location, limit) ==
    query \o <<"_">> \o location \o <<"_">> \o Str(limit)

\* lines 273-289: the postings of the clients the fetcher has
fetch_all(fetcher, limit, env) ==
    (IF fetcher.adzuna_client THEN AdzunaClient_search_jobs(env.adzuna) ELSE <<>>)
    \o (IF fetcher.jsearch_client THEN JSearchClient_search_jobs(env.jsearch, limit)
        ELSE <<>>)

\* lines 291-298: deduplicate, cache, cut
fetched(deduplicated, cache_dir, key, limit, write) ==
    [value |-> Slice(deduplicated, limit),
     cache |-> JobCache_set(cache_dir, key, deduplicated, write)]

\* lines 265-298, after the cache was asked
fetch_after(cached, fetcher, key, limit, env) ==
    IF cached.value # None /\ cached.value[1] # <<>>
    THEN [value |-> cached.value[1], cache |-> cached.cache]
    ELSE fetched(_deduplicate_jobs(fetch_all(fetcher, limit, env)),
                 cached.cache, key, limit, env.write)

\* JobFetcher.fetch_jobs, lines 253-298
fetch_jobs(query, location, limit, fetcher, cache_dir, env) ==
    fetch_after(JobCache_get(cache_dir, cache_key(query, location, limit), env.read),
                fetcher, cache_key(query, location, limit), limit, env)

Configs ==
    [adzuna_app_id : {"", "id"}, adzuna_app_key : {"", "key"}, rapidapi_key : {"", "key"}]

FetchLimits == 1..MaxFetchLimit

\* a cache file can only be expired or unreadable if it exists
FetchEnvs(fetcher, cache_dir, key, limit) ==
    [adzuna : IF fetcher.adzuna_client THEN AdzunaResponses(limit) ELSE {Failed("error")},
     jsearch : IF fetcher.jsearch_client THEN JSearchResponses ELSE {Failed("error")},
     read : IF key \in DOMAIN cache_dir THEN {"fresh", "expired", "error"} ELSE {"fresh"},
     write : {"ok", "error"}]

FetchJobsCalls ==
    UNION {[op : {"fetch_jobs"}, query : {py}, location : {location}, limit : {limit},
            env : FetchEnvs(job_fetcher, cache, cache_key(py, location, limit), limit)] :
           location \in {<<>>, NY}, limit \in FetchLimits}

FetchJobs ==
    /\ pc = "called"
    /\ call.op = "fetch_jobs"
    /\ result' = [raised |-> FALSE,
                  value |-> fetch_jobs(call.query, call.location, call.limit,
                                       job_fetcher, cache, call.env).value]
    /\ cache' = fetch_jobs(call.query, call.location, call.limit,
                           job_fetcher, cache, call.env).cache
    /\ pc' = "done"
    /\ UNCHANGED <<memo, job_fetcher, caller_vars, files, skill_taxonomy, skill_index, SentenceTransformer, model, openai_helper, call>>

\* the fetcher is constructed from its configuration, the cache directory is
\* empty
InitFetch ==
    /\ files = [taxonomy |-> JsonFile(PlainTaxonomy),
                resources |-> JsonFile(LearningResources)]
    /\ skill_taxonomy = PlainTaxonomy
    /\ skill_index = _build_skill_index(PlainTaxonomy)
    /\ SentenceTransformer = "None"
    /\ model = None
    /\ openai_helper = NoHelper
    /\ pc = "idle"
    /\ call = NoCall
    /\ result = NoResult
    /\ memo = NoMemo
    /\ job_fetcher \in {JobFetcherInit(config) : config \in Configs}
    /\ cache = <<>>
    /\ callers = <<>>
    /\ instances = 0

NextFetch ==
    \/ Invoke(FetchJobsCalls)
    \/ FetchJobs
    \/ Return

SpecFetch == InitFetch /\ [][NextFetch]_vars

-----------------------------------------------------------------------------
(* Concurrent callers of SkillAnalyzer.compute_skill_embeddings: the request *)
(* threads of the application share one analyzer (app.py, lines 203-213).    *)
(* A step is one read or one write of self.model, or one call of the         *)
(* library; no lock is taken anywhere in lines 36-40 and 162-181.            *)

Callers == 1..MaxCallers

\* what the steps of the threads leave alone, besides the job fetcher
request_vars ==
    <<files, skill_taxonomy, skill_index, SentenceTransformer, openai_helper,
      pc, call, result, memo>>

\* a thread outside of compute_skill_embeddings
Outside ==
    [pc |-> "outside", skills |-> <<>>, constructed |-> None, model |-> None,
     encoded_with |-> None, result |-> "None"]

\* line 172: compute_skill_embeddings(skills) is entered
Enter(c) ==
    /\ callers[c].pc = "outside"
    /\ \E skills \in ListsUpTo({Py}, 1) :
           callers' = [callers EXCEPT ![c].pc = "line 38", ![c].skills = skills,
                                      ![c].constructed = None, ![c].model = None]
    /\ UNCHANGED <<instances, model, request_vars, fetcher_vars>>

\* line 38: if self.model is None and SentenceTransformer is not None
TestModel(c) ==
    /\ callers[c].pc = "line 38"
    /\ callers' = [callers EXCEPT ![c].pc =
                       IF model = None /\ SentenceTransformer # "None"
                       THEN "line 39" ELSE "line 40"]
    /\ UNCHANGED <<instances, model, request_vars, fetcher_vars>>

\* line 39, right-hand side: SentenceTransformer(self.model_name) returns a
\* new instance
Construct(c) ==
    /\ callers[c].pc = "line 39"
    /\ instances' = instances + 1
    /\ callers' = [callers EXCEPT ![c].pc = "line 39 store",
                                  ![c].constructed = Some(instances + 1)]
    /\ UNCHANGED <<model, request_vars, fetcher_vars>>

\* line 39, right-hand side: the constructor raises, and so does the call
ConstructRaises(c) ==
    /\ callers[c].pc = "line 39"
    /\ callers' = [callers EXCEPT ![c].pc = "outside", ![c].result = "raised"]
    /\ UNCHANGED <<instances, model, request_vars, fetcher_vars>>

\* line 39: self.model = <the new instance>
StoreModel(c) ==
    /\ callers[c].pc = "line 39 store"
    /\ model' = callers[c].constructed
    /\ callers' = [callers EXCEPT ![c].pc = "line 40"]
    /\ UNCHANGED <<instances, request_vars, fetcher_vars>>

\* lines 40 and 172: model = self.model
ReturnModel(c) ==
    /\ callers[c].pc = "line 40"
    /\ callers' = [callers EXCEPT ![c].pc = "line 173", ![c].model = model]
    /\ UNCHANGED <<instances, model, request_vars, fetcher_vars>>

\* lines 173-174: no model or no skills
ReturnNone(c) ==
    /\ callers[c].pc = "line 173"
    /\ callers[c].model = None \/ callers[c].skills = <<>>
    /\ callers' = [callers EXCEPT ![c].pc = "outside", ![c].result = "None"]
    /\ UNCHANGED <<instances, model, request_vars, fetcher_vars>>

\* lines 176-181: model.encode(skills) returns the array, or raises and None
\* is returned
Encode(c) ==
    /\ callers[c].pc = "line 173"
    /\ callers[c].model # None /\ callers[c].skills # <<>>
    /\ \E encode \in {"ok", "raises"} :
           callers' = [callers EXCEPT ![c].pc = "outside",
                                      ![c].encoded_with = callers[c].model,
                                      ![c].result = IF encode = "ok" THEN "array"
                                                    ELSE "None"]
    /\ UNCHANGED <<instances, model, request_vars, fetcher_vars>>

\* the analyzer is constructed, the library is installed, every thread is
\* outside
InitConcurrent ==
    /\ files = [taxonomy |-> JsonFile(PlainTaxonomy),
                resources |-> JsonFile(LearningResources)]
    /\ skill_taxonomy = PlainTaxonomy
    /\ skill_index = _build_skill_index(PlainTaxonomy)
    /\ SentenceTransformer \in {"None", "class"}
    /\ model = None
    /\ openai_helper = NoHelper
    /\ pc = "idle"
    /\ call = NoCall
    /\ result = NoResult
    /\ memo = NoMemo
    /\ job_fetcher = NoFetcher
    /\ cache = <<>>
    /\ callers = [c \in Callers |-> Outside]
    /\ instances = 0

NextConcurrent ==
    \/ \E c \in Callers : Enter(c)
    \/ \E c \in Callers : TestModel(c)
    \/ \E c \in Callers : Construct(c)
    \/ \E c \in Callers : ConstructRaises(c)
    \/ \E c \in Callers : StoreModel(c)
    \/ \E c \in Callers : ReturnModel(c)
    \/ \E c \in Callers : ReturnNone(c)
    \/ \E c \in Callers : Encode(c)

SpecConcurrent == InitConcurrent /\ [][NextConcurrent]_vars

-----------------------------------------------------------------------------
(* Vocabulary of the properties *)

\* a and b are the same string up to letter case
EqIgnoreCase(a, b) ==
    /\ Len(a) = Len(b)
    /\ \A i \in 1..Len(a) : LowerChar(a[i]) = LowerChar(b[i])

\* the profile holds the skill, whatever its letter case
Holds(user_skills, skill) ==
    \E i \in 1..Len(user_skills) : EqIgnoreCase(user_skills[i], skill)

\* the two lists share no skill under case-insensitive comparison
Disjoint(user_skills, job_skills) ==
    \A i \in 1..Len(job_skills) : ~Holds(user_skills, job_skills[i])

\* no two entries of the list are equal under case-insensitive comparison
NoRepeat(skills) ==
    \A i, j \in 1..Len(skills) : i # j => ~EqIgnoreCase(skills[i], skills[j])

\* |matching| / |requirements|: the distinct requirements (case folded) the
\* profile holds, over the number of requirements; 0 if either list is empty
PureOverlapRatio(user_skills, job_skills) ==
    IF user_skills = <<>> \/ job_skills = <<>> THEN Zero
    ELSE LET held == {Lower(job_skills[i]) :
                         i \in {k \in 1..Len(job_skills) : Holds(user_skills, job_skills[k])}}
         IN  Rat(Cardinality(held), Len(job_skills))

\* the embedding capability is absent, returned nothing or raised in this call
EmbeddingFailed ==
    \/ SentenceTransformer = "None"
    \/ call.env.load = "raises"
    \/ call.env.encode_user # "ok"
    \/ call.env.encode_job # "ok"
    \/ call.env.similarity.raises

-----------------------------------------------------------------------------
(* Properties of _compare_skills *)

\* C2: every requirement is put in exactly one of matching_skills and
\* missing_skills; it is in matching_skills iff it equals some profile skill
\* ignoring letter case; the two lists together hold exactly the requirement
\* set; no skill is in both lists under case-insensitive comparison.
C2_ComparePartitionsRequirements ==
    (pc = "done" /\ call.op = "_compare_skills") =>
        LET matching == result.value.matching
            missing == result.value.missing
            job_skills == call.job_skills
            user_skills == call.user_skills
        IN  /\ Len(matching) + Len(missing) = Len(job_skills)
            /\ \A i \in 1..Len(job_skills) :
                  /\ (job_skills[i] \in SetOf(matching)) = Holds(user_skills, job_skills[i])
                  /\ (job_skills[i] \in SetOf(missing)) = ~Holds(user_skills, job_skills[i])
            /\ SetOf(matching) \cup SetOf(missing) = SetOf(job_skills)
            /\ \A i \in 1..Len(matching), j \in 1..Len(missing) :
                  ~EqIgnoreCase(matching[i], missing[j])

\* a comparison that matched a requirement spelled in another letter case
\* than the profile skill, and found another requirement missing
C2_Witness ==
    /\ pc = "done"
    /\ call.op = "_compare_skills"
    /\ result.value.missing # <<>>
    /\ \E i \in 1..Len(result.value.matching) :
          result.value.matching[i] \notin SetOf(call.user_skills)

\* C3: neither matching_skills nor missing_skills contains two entries that
\* are equal under case-insensitive comparison, also when the requirement
\* list repeats a skill.
C3_NoDuplicateEntries ==
    (pc = "done" /\ call.op = "_compare_skills") =>
        /\ NoRepeat(result.value.matching)
        /\ NoRepeat(result.value.missing)

-----------------------------------------------------------------------------
(* Properties of _skill_similarity *)

\* C6: when the embedding capability is absent, returns nothing or raises
\* (model load, encoding, similarity computation), _skill_similarity returns
\* normally and its value is exactly the pure overlap ratio.
C6_EmbeddingFailureFallsBackToOverlap ==
    (pc = "done" /\ call.op = "_skill_similarity" /\ EmbeddingFailed) =>
        /\ ~result.raised
        /\ result.value = PureOverlapRatio(call.user_skills, call.job_skills)

\* the model constructor raised for lists that overlap by one half
C6_Witness ==
    /\ pc = "done"
    /\ call.op = "_skill_similarity"
    /\ call.env.load = "raises"
    /\ ~result.raised
    /\ result.value = Rat(1, 2)

\* C8: for every non-empty skill list S, the overlap component of skill_match
\* for profile skills S and requirements S is greater than 0.9.
C8_IdenticalListsOverlapAboveNineTenths ==
    (/\ pc = "done"
     /\ call.op = "_skill_similarity"
     /\ call.user_skills # <<>>
     /\ call.user_skills = call.job_skills) =>
        RLt(Rat(9, 10), overlap_score(call.user_skills, call.job_skills))

\* C9: for lists that share no skill under case-insensitive comparison
\* (either may be empty) the overlap component is exactly 0, and with the
\* embedding capability unavailable _skill_similarity returns exactly 0.
C9_DisjointListsScoreZero ==
    (/\ pc = "done"
     /\ call.op = "_skill_similarity"
     /\ Disjoint(call.user_skills, call.job_skills)) =>
        /\ overlap_score(call.user_skills, call.job_skills) = Zero
        /\ SentenceTransformer = "None" => (~result.raised /\ result.value = Zero)

\* two non-empty disjoint lists scored without the embedding library
C9_Witness ==
    /\ pc = "done"
    /\ call.op = "_skill_similarity"
    /\ SentenceTransformer = "None"
    /\ call.user_skills # <<>>
    /\ call.job_skills # <<>>
    /\ Disjoint(call.user_skills, call.job_skills)
    /\ result.value = Zero

-----------------------------------------------------------------------------
(* Properties of compute_match_score and _salary_match *)

\* C1: for well-formed numeric ranges, and whether the embedding capability is
\* unavailable, failing or available with any similarity in [-1, 1],
\* compute_match_score returns a value between 0 and 100 inclusive.
C1_ScoreBetween0And100 ==
    (pc = "done" /\ call.op = "compute_match_score") =>
        /\ ~result.raised
        /\ RLe(Zero, result.value)
        /\ RLe(result.value, Rat(100, 1))

\* C10: _salary_match returns exactly 0.7 whenever profile.salary_min or
\* posting.salary_max is absent, and exactly 0.2 whenever both are present
\* (any number, 0 included) and posting.salary_max < profile.salary_min.
C10_SalaryNeutralAndTooLow ==
    (pc = "done" /\ call.op = "_salary_match") =>
        /\ (call.user_min = None \/ call.job_max = None) => result.value = Rat(7, 10)
        /\ (/\ call.user_min # None
            /\ call.job_max # None
            /\ call.job_max[1] < call.user_min[1]) => result.value = Rat(2, 10)

-----------------------------------------------------------------------------
(* Properties of generate_recommendations *)

\* position of the posting in the list handed to generate_recommendations
InputPosition(job) == CHOOSE k \in 1..Len(call.jobs) : call.jobs[k].id = job.id

\* C4: the results are in non-increasing order of score, and two results
\* with equal score are in the relative order of their postings in the input.
C4_SortedByScoreStable ==
    (pc = "done" /\ call.op = "generate_recommendations" /\ ~result.raised) =>
        \A i, j \in 1..Len(result.value) :
            i < j =>
                /\ RLe(result.value[j].match_score, result.value[i].match_score)
                /\ result.value[i].match_score = result.value[j].match_score
                       => InputPosition(result.value[i].job)
                              < InputPosition(result.value[j].job)

\* three results: two postings of equal score lead in the order they had in
\* the input, and the posting that came first in the input is ranked last
C4_Witness ==
    /\ pc = "done"
    /\ call.op = "generate_recommendations"
    /\ Len(result.value) = 3
    /\ InputPosition(result.value[3].job) = 1
    /\ result.value[1].job.id = 2
    /\ result.value[2].job.id = 1
    /\ result.value[1].match_score = result.value[2].match_score
    /\ RLt(result.value[3].match_score, result.value[2].match_score)

\* C5: for every integer limit at most `limit` results are returned (none
\* when the limit is negative); when limit is at least the number of postings
\* every posting yields exactly one result; an empty posting list yields an
\* empty list and no error.
C5_AtMostLimitResults ==
    (pc = "done" /\ call.op = "generate_recommendations") =>
        /\ ~result.raised
        /\ Len(result.value) <= (IF call.limit >= 0 THEN call.limit ELSE 0)
        /\ call.limit >= Len(call.jobs) =>
              \A k \in 1..Len(call.jobs) :
                  Cardinality({i \in 1..Len(result.value) :
                                  result.value[i].job = call.jobs[k]}) = 1
        /\ call.jobs = <<>> => result.value = <<>>

\* the explanation capability gave no text for the k-th posting of the call:
\* no helper was injected, the helper is unavailable, or the completion
\* raised, had no content or had empty content
NoGptText(k) ==
    \/ ~openai_helper.present
    \/ ~openai_helper.available
    \/ call.completions[k] \in {"raises", "none", "empty"}

\* the template text for a result of the call; the score of a posting does
\* not depend on the postings scored before it, as the library either is not
\* installed or behaves as call.env says for every posting
TemplateFor(rec) ==
    template_explanation(
        compute_match_score(call.user_profile, rec.job, SentenceTransformer,
                            None, call.env).value,
        rec.matching_skills, rec.missing_skills, call.user_profile, rec.job)

\* C7: when the explanation capability is absent, returns no text or raises,
\* generate_recommendations still returns normally, with a result for the
\* posting (if the limit keeps it) whose explanation is the template text.
C7_ExplanationFailureFallsBackToTemplate ==
    (pc = "done" /\ call.op = "generate_recommendations") =>
        /\ ~result.raised
        /\ Len(result.value) = Len(Slice(call.jobs, call.limit))
        /\ \A i \in 1..Len(result.value) :
              NoGptText(InputPosition(result.value[i].job))
                  => result.value[i].explanation = TemplateFor(result.value[i])

\* the completion raised for one posting and gave a text for another: the
\* first result carries the template text, the second the generated text
C7_Witness ==
    /\ pc = "done"
    /\ call.op = "generate_recommendations"
    /\ openai_helper.available
    /\ Len(result.value) = 2
    /\ call.completions[InputPosition(result.value[1].job)] = "raises"
    /\ call.completions[InputPosition(result.value[2].job)] = "text"
    /\ result.value[1].explanation = TemplateFor(result.value[1])
    /\ result.value[2].explanation = GptText

-----------------------------------------------------------------------------
(* Vocabulary of the analyzer properties *)

\* the canonical name of a skill: the name of the record the index holds for
\* its lowercase form, the skill as given if the index holds none
CanonicalName(skill) ==
    IF \E i \in 1..Len(skill_index) : skill_index[i].key = Lower(skill)
    THEN skill_index[CHOOSE i \in 1..Len(skill_index) :
                        skill_index[i].key = Lower(skill)].info.name
    ELSE skill

\* requirement k of the call is tallied as missing under the given name
TalliedAs(k, name) ==
    /\ ~has_skill(Lower(call.job_requirements[k]),
                  SetOf(LowerAll(call.user_skills)), skill_index)
    /\ CanonicalName(call.job_requirements[k]) = name

\* the position of the first requirement tallied as missing under the name
FirstMissing(name) ==
    CHOOSE k \in 1..Len(call.job_requirements) :
        /\ TalliedAs(k, name)
        /\ \A j \in 1..(k - 1) : ~TalliedAs(j, name)

GapsReturned ==
    pc = "done" /\ call.op = "identify_skill_gaps" /\ ~result.raised

-----------------------------------------------------------------------------
(* Properties of identify_skill_gaps *)

-----------------------------------------------------------------------------
(* Properties of normalize_skills *)

\* the position of the first input whose canonical name is the given one
FirstOccurrence(name) ==
    CHOOSE k \in 1..Len(call.skills) :
        /\ CanonicalName(call.skills[k]) = name
        /\ \A j \in 1..(k - 1) : CanonicalName(call.skills[j]) # name

\* the entry that the input skill stands for
EntryOf(skill) ==
    IF \E i \in 1..Len(skill_index) : skill_index[i].key = Lower(skill)
    THEN LET record == skill_index[CHOOSE i \in 1..Len(skill_index) :
                                      skill_index[i].key = Lower(skill)].info
         IN  [name |-> record.name, category |-> record.category,
              synonyms |-> record.synonyms, related |-> record.related,
              proficiency |-> "intermediate"]
    ELSE [name |-> skill, category |-> "other", synonyms |-> <<>>,
          related |-> <<>>, proficiency |-> "intermediate"]

\* C12: normalize_skills emits exactly one entry per distinct canonical name
\* of the input, in the order of the names' first occurrences; the entry is
\* the index record of the first occurrence with proficiency "intermediate",
\* or the name as given with category "other" when the index has no such
\* key; no input name is dropped.
C12_NormalizeOneEntryPerCanonicalName ==
    (pc = "done" /\ call.op = "normalize_skills") =>
        /\ ~result.raised
        /\ {result.value[i].name : i \in 1..Len(result.value)}
              = {CanonicalName(call.skills[k]) : k \in 1..Len(call.skills)}
        /\ \A i, j \in 1..Len(result.value) :
              i < j => FirstOccurrence(result.value[i].name)
                          < FirstOccurrence(result.value[j].name)
        /\ \A i \in 1..Len(result.value) :
              result.value[i]
                  = EntryOf(call.skills[FirstOccurrence(result.value[i].name)])

\* a synonym, then its canonical name, then an unknown name: two entries
C12_Witness ==
    /\ pc = "done"
    /\ call.op = "normalize_skills"
    /\ Len(call.skills) = 3
    /\ call.skills[1] = p3
    /\ call.skills[2] = Py
    /\ Len(result.value) = 2
    /\ result.value[1].name = Py
    /\ result.value[1].category = "languages"
    /\ result.value[2].name = Go
    /\ result.value[2].category = "other"

-----------------------------------------------------------------------------
(* Properties of extract_skills *)

\* the characters that end a token: whitespace and the one-character separators
TokenDelimiters == Whitespace \cup {",", ";", "|"}

\* position p is outside the text or holds a delimiter
DelimitedAt(text, p) == p \notin 1..Len(text) \/ text[p] \in TokenDelimiters

\* the key occurs in the text, in any letter case, as a complete token
OccursAsToken(key, text) ==
    \E i \in 1..(Len(text) - Len(key) + 1) :
        /\ EqIgnoreCase(SubSeq(text, i, i + Len(key) - 1), key)
        /\ DelimitedAt(text, i - 1)
        /\ DelimitedAt(text, i + Len(key))

\* C13: for every index key that occurs in the text as a complete token, in
\* any letter case, in prose or as an item of a list, extract_skills returns a
\* list that contains the canonical name of the key.
C13_ExtractFindsEveryToken ==
    (pc = "done" /\ call.op = "extract_skills") =>
        \A k \in 1..Len(skill_index) :
            OccursAsToken(skill_index[k].key, call.text)
                => skill_index[k].info.name \in SetOf(result.value)

-----------------------------------------------------------------------------
(* Properties of the index *)

\* C14: after construction, every record stored in the index is also stored
\* under the lowercase form of its own canonical name.
C14_RecordsIndexedByOwnName ==
    pc = "idle" =>
        \A k \in 1..Len(skill_index) :
            \E j \in 1..Len(skill_index) :
                /\ skill_index[j].key = Lower(skill_index[k].info.name)
                /\ skill_index[j].info = skill_index[k].info

-----------------------------------------------------------------------------
(* Properties of the loading of the taxonomy and the learning resources *)

\* C15: a failure to load the taxonomy or the learning resources is raised
\* while the analyzer is constructed, as a ConfigurationError, and never by a
\* later request.
C15_LoadFailureOnlyAtInitialization ==
    ((pc = "failed" \/ pc = "done") /\ result.raised) =>
        /\ call.op = "__init__"
        /\ result.error = "ConfigurationError"

-----------------------------------------------------------------------------
(* Properties of the location and experience factors *)

\* part occurs in text, letter case ignored
ContainsIgnoreCase(text, part) ==
    \E i \in 1..(Len(text) - Len(part) + 1) :
        EqIgnoreCase(SubSeq(text, i, i + Len(part) - 1), part)

\* C16: location_match is 1.0 for a remote posting whatever the preferences,
\* else 0.7 when there are no preferred locations, else 1.0 when a preferred
\* location is a case-insensitive substring of the posting location, else 0.3.
C16_LocationMatchTable ==
    (pc = "done" /\ call.op = "_location_match") =>
        /\ ~result.raised
        /\ result.value =
              (IF call.is_remote THEN <<1, 1>>
               ELSE IF Len(call.preferred_locations) = 0 THEN <<7, 10>>
               ELSE IF \E k \in 1..Len(call.preferred_locations) :
                          ContainsIgnoreCase(call.job_location,
                                             call.preferred_locations[k])
               THEN <<1, 1>>
               ELSE <<3, 10>>)

\* a preference that matches the posting location only when case is ignored,
\* listed after one that does not match
C16_Witness ==
    /\ pc = "done"
    /\ call.op = "_location_match"
    /\ ~call.is_remote
    /\ call.preferred_locations = <<LA, NY>>
    /\ call.job_location = ny_usa
    /\ result.value = <<1, 1>>

-----------------------------------------------------------------------------
(* Properties of compute_match_score *)

\* 100 x (0.50 x skill + 0.20 x experience + 0.15 x location + 0.15 x salary)
ScoreOf(skill, experience, location, salary) ==
    RMul(<<100, 1>>,
         RAdd(RAdd(RMul(<<1, 2>>, skill), RMul(<<1, 5>>, experience)),
              RAdd(RMul(<<3, 20>>, location), RMul(<<3, 20>>, salary))))

\* the four factors of a profile and a posting, for the library outcomes of
\* the call
SkillFactor(user_profile, job) ==
    _skill_similarity(Get(user_profile, "skills", <<>>), Get(job, "requirements", <<>>),
                      SentenceTransformer, model, call.env).value

ExperienceFactor(user_profile, job) ==
    _experience_match(Get(user_profile, "experience_years", 0),
                      Get(job, "description", <<>>))

LocationFactor(user_profile, job) ==
    _location_match(Get(user_profile, "preferred_locations", <<>>),
                    Get(job, "location", <<>>), Get(job, "remote", FALSE))

SalaryFactor(user_profile, job) ==
    _salary_match(Get(user_profile, "salary_min", None),
                  Get(user_profile, "salary_max", None),
                  Get(job, "salary_min", None), Get(job, "salary_max", None))

\* the dict has no such key, or holds null for it
Absent(d, field) == field \notin DOMAIN d \/ d[field] = None

\* C17: scoring completes without raising whichever of the optional fields
\* (profile salary_min, salary_max, preferred_locations; posting salary_min,
\* salary_max) are absent or null; the salary factor is 0.7 when the profile
\* minimum or the posting maximum is absent, the location factor is 0.7 for
\* a posting that is not remote when the profile has no preferred locations.
C17_AbsentOptionalFieldsAreNeutral ==
    (pc = "done" /\ call.op = "compute_match_score") =>
        /\ ~result.raised
        /\ (Absent(call.user_profile, "salary_min") \/ Absent(call.job, "salary_max"))
              => result.value = ScoreOf(SkillFactor(call.user_profile, call.job),
                                        ExperienceFactor(call.user_profile, call.job),
                                        LocationFactor(call.user_profile, call.job),
                                        <<7, 10>>)
        /\ (Absent(call.user_profile, "preferred_locations") /\ ~call.job["remote"])
              => result.value = ScoreOf(SkillFactor(call.user_profile, call.job),
                                        ExperienceFactor(call.user_profile, call.job),
                                        <<7, 10>>,
                                        SalaryFactor(call.user_profile, call.job))

\* none of the five optional fields is in the profile or the posting
C17_Witness ==
    /\ pc = "done"
    /\ call.op = "compute_match_score"
    /\ DOMAIN call.user_profile = {"skills", "experience_years"}
    /\ DOMAIN call.job = {"id", "requirements", "description", "location", "remote"}
    /\ ~call.job["remote"]
    /\ ~result.raised
    /\ result.value = ScoreOf(SkillFactor(call.user_profile, call.job),
                              ExperienceFactor(call.user_profile, call.job),
                              <<7, 10>>, <<7, 10>>)

\* r has at most two decimals and is within 0.005 of x
RoundedToTwoDecimals(r, x) ==
    /\ (r[1] * 100) % r[2] = 0
    /\ RLe(RAdd(r, RMul(<<-1, 1>>, x)), <<1, 200>>)
    /\ RLe(RAdd(x, RMul(<<-1, 1>>, r)), <<1, 200>>)

\* C18: the match score is 100 x (0.50 x skill_match + 0.20 x
\* experience_match + 0.15 x location_match + 0.15 x salary_match); the
\* weights sum to 1, so four factors of 1.0 give exactly 100; the score
\* reported in a recommendation is this value rounded to two decimals.
C18_WeightedScoreRoundedInResults ==
    /\ RAdd(RAdd(weights.skill_match, weights.experience_match),
            RAdd(weights.location_match, weights.salary_match)) = <<1, 1>>
    /\ (pc = "done" /\ call.op = "compute_match_score") =>
          /\ ~result.raised
          /\ result.value = ScoreOf(SkillFactor(call.user_profile, call.job),
                                    ExperienceFactor(call.user_profile, call.job),
                                    LocationFactor(call.user_profile, call.job),
                                    SalaryFactor(call.user_profile, call.job))
          /\ ( /\ SkillFactor(call.user_profile, call.job) = <<1, 1>>
               /\ ExperienceFactor(call.user_profile, call.job) = <<1, 1>>
               /\ LocationFactor(call.user_profile, call.job) = <<1, 1>>
               /\ SalaryFactor(call.user_profile, call.job) = <<1, 1>> )
                => result.value = <<100, 1>>
    /\ (pc = "done" /\ call.op = "generate_recommendations") =>
          /\ ~result.raised
          /\ \A i \in 1..Len(result.value) :
                RoundedToTwoDecimals(
                    result.value[i].match_score,
                    ScoreOf(SkillFactor(call.user_profile, result.value[i].job),
                            ExperienceFactor(call.user_profile, result.value[i].job),
                            LocationFactor(call.user_profile, result.value[i].job),
                            SalaryFactor(call.user_profile, result.value[i].job)))

\* a result with four factors of 1.0 and the score 100, followed by a result
\* whose score 45.666... is reported as 45.67
C18_Witness ==
    /\ pc = "done"
    /\ call.op = "generate_recommendations"
    /\ Len(result.value) = 2
    /\ result.value[1].match_score = <<100, 1>>
    /\ SkillFactor(call.user_profile, result.value[2].job) = <<1, 3>>
    /\ result.value[2].match_score = <<4567, 100>>

-----------------------------------------------------------------------------
(* Properties of _experience_match *)

\* the years that the description asks for
RequiredYears(description) ==
    IF \/ ContainsIgnoreCase(description, <<"e","n","t","r","y"," ","l","e","v","e","l">>)
       \/ ContainsIgnoreCase(description, <<"j","u","n","i","o","r">>)
    THEN 1
    ELSE IF \/ ContainsIgnoreCase(description, <<"m","i","d"," ","l","e","v","e","l">>)
            \/ ContainsIgnoreCase(description, <<"i","n","t","e","r","m","e","d","i","a","t","e">>)
    THEN 3
    ELSE IF \/ ContainsIgnoreCase(description, <<"s","e","n","i","o","r">>)
            \/ ContainsIgnoreCase(description, <<"l","e","a","d">>)
    THEN 5
    ELSE IF \/ ContainsIgnoreCase(description, <<"p","r","i","n","c","i","p","a","l">>)
            \/ ContainsIgnoreCase(description, <<"s","t","a","f","f">>)
    THEN 8
    ELSE 3

\* C19: experience_match takes the required years from the description with
\* the precedence entry level / junior (1), mid level / intermediate (3),
\* senior / lead (5), principal / staff (8), default 3; for d = |experience
\* years - required| the score is 1.0 (d = 0), 0.9 (d = 1), 0.7 (d = 2),
\* 0.5 (d = 3) and 0.3 (d > 3).
C19_ExperienceMatchTable ==
    (pc = "done" /\ call.op = "_experience_match") =>
        /\ ~result.raised
        /\ result.value =
              (CASE Abs(call.user_exp - RequiredYears(call.job_description)) = 0 -> <<1, 1>>
                 [] Abs(call.user_exp - RequiredYears(call.job_description)) = 1 -> <<9, 10>>
                 [] Abs(call.user_exp - RequiredYears(call.job_description)) = 2 -> <<7, 10>>
                 [] Abs(call.user_exp - RequiredYears(call.job_description)) = 3 -> <<1, 2>>
                 [] OTHER -> <<3, 10>>)

\* a description with both "junior" and "senior" asks for 1 year
C19_Witness ==
    /\ pc = "done"
    /\ call.op = "_experience_match"
    /\ ContainsIgnoreCase(call.job_description, <<"j","u","n","i","o","r">>)
    /\ ContainsIgnoreCase(call.job_description, <<"s","e","n","i","o","r">>)
    /\ call.user_exp = 1
    /\ result.value = <<1, 1>>

-----------------------------------------------------------------------------
(* Properties of _salary_match with all four bounds *)

Max(a, b) == IF a >= b THEN a ELSE b
Min(a, b) == IF a <= b THEN a ELSE b

\* the width of the intersection of [lo1, hi1] and [lo2, hi2], 0 if they do
\* not intersect
OverlapWidth(lo1, hi1, lo2, hi2) == Max(0, Min(hi1, hi2) - Max(lo1, lo2))

\* C20: when the four salary bounds are present, both ranges are well-formed
\* and the posting maximum is at least the profile minimum, salary_match is
\* min(1.0, overlap width / profile range width), and 1.0 when the profile
\* range has width 0; for well-formed ranges 0.8 is returned only when the
\* profile maximum or the posting minimum is absent.
C20_SalaryOverlapRatio ==
    (pc = "done" /\ call.op = "_salary_match") =>
        /\ ( /\ call.user_min # None /\ call.user_max # None
             /\ call.job_min # None /\ call.job_max # None
             /\ call.user_min[1] <= call.user_max[1]
             /\ call.job_min[1] <= call.job_max[1]
             /\ call.job_max[1] >= call.user_min[1] )
              => result.value =
                    (IF call.user_max[1] = call.user_min[1] THEN <<1, 1>>
                     ELSE RMin(<<1, 1>>,
                               Rat(OverlapWidth(call.user_min[1], call.user_max[1],
                                                call.job_min[1], call.job_max[1]),
                                   call.user_max[1] - call.user_min[1])))
        /\ ( /\ WellFormed(call.user_min, call.user_max)
             /\ WellFormed(call.job_min, call.job_max)
             /\ result.value = <<4, 5>> )
              => (call.user_max = None \/ call.job_min = None)

-----------------------------------------------------------------------------
(* Properties of _calculate_confidence *)

\* x if the condition holds, else 0
Bonus(condition, x) == IF condition THEN x ELSE <<0, 1>>

\* C21: the confidence is min(1.0, 0.5 + 0.2 if requirements is non-empty
\* + 0.15 if the description is longer than 100 characters + 0.15 if both
\* salary bounds of the posting are present); it depends on the posting alone
\* and lies in [0.5, 1.0].
C21_ConfidenceFromPostingData ==
    (pc = "done" /\ call.op = "_calculate_confidence") =>
        /\ ~result.raised
        /\ result.value =
              RMin(<<1, 1>>,
                   RAdd(RAdd(<<1, 2>>,
                             Bonus(Len(call.job.requirements) > 0, <<1, 5>>)),
                        RAdd(Bonus(Len(call.job.description) > 100, <<3, 20>>),
                             Bonus(call.job.salary_min # None /\ call.job.salary_max # None,
                                   <<3, 20>>))))
        /\ RLe(<<1, 2>>, result.value)
        /\ RLe(result.value, <<1, 1>>)

-----------------------------------------------------------------------------
(* Properties of the template explanation *)

ExcellentMatch == <<"E","x","c","e","l","l","e","n","t"," ","m","a","t","c","h","!"," ">>
GoodMatch == <<"G","o","o","d"," ","m","a","t","c","h","."," ">>
PotentialMatch == <<"P","o","t","e","n","t","i","a","l"," ","m","a","t","c","h","."," ">>

PrefixFor(score) ==
    IF RLe(<<80, 1>>, score) THEN ExcellentMatch
    ELSE IF RLe(<<60, 1>>, score) THEN GoodMatch
    ELSE PotentialMatch

MatchingFragment(skills) ==
    <<"Y","o","u"," ","h","a","v","e"," ">> \o Str(Len(skills))
        \o <<" ","m","a","t","c","h","i","n","g"," ","s","k","i","l","l","s",":"," ">>
        \o Join(SubSeq(skills, 1, Min(3, Len(skills))), <<",", " ">>)

MissingFragment(skills) ==
    <<"Y","o","u","'","r","e"," ","m","i","s","s","i","n","g",":"," ">> \o Join(skills, <<",", " ">>)

ExperienceRemarks ==
    {<<"Y","o","u","r"," ","s","e","n","i","o","r"," ","e","x","p","e","r","i","e","n","c","e"," ","i","s"," ","a"," ","g","r","e","a","t"," ","f","i","t">>,
     <<"Y","o","u","r"," ","e","x","p","e","r","i","e","n","c","e"," ","l","e","v","e","l"," ","m","a","t","c","h","e","s"," ","w","e","l","l">>}

RemoteRemark == <<"R","e","m","o","t","e"," ","p","o","s","i","t","i","o","n">>

\* the fragment if its condition holds
Fragment(condition, text) == IF condition THEN <<text>> ELSE <<>>

\* the explanation capability is absent or yields nothing in this call
NoText ==
    \/ ~openai_helper.present
    \/ ~openai_helper.available
    \/ call.completion \in {"raises", "none", "empty"}

ExperienceYears == Get(call.user_profile, "experience_years", 0)

\* C22: when the explanation capability is absent or yields nothing, the
\* explanation is the prefix of the score band followed by the fragments
\* joined with ". ": the matching skills (their number and the first three
\* names) iff there are any, the missing skills iff there are one to three,
\* an experience remark iff experience_years >= 2, a remote remark iff the
\* posting is remote.
C22_TemplateExplanationText ==
    (pc = "done" /\ call.op = "_generate_explanation" /\ NoText) =>
        /\ ~result.raised
        /\ \E remark \in ExperienceRemarks :
              result.value =
                  PrefixFor(call.score)
                      \o Join(Fragment(Len(call.matching_skills) > 0,
                                       MatchingFragment(call.matching_skills))
                              \o Fragment(Len(call.missing_skills) \in 1..3,
                                          MissingFragment(call.missing_skills))
                              \o Fragment(ExperienceYears >= 2, remark)
                              \o Fragment(Get(call.job, "remote", FALSE), RemoteRemark),
                              <<".", " ">>)

\* the completion raised; four skills match, of which three are named, four
\* are missing and not listed, the profile has three years and the posting
\* is remote: a good match of three fragments
C22_Witness ==
    /\ pc = "done"
    /\ call.op = "_generate_explanation"
    /\ openai_helper.available
    /\ call.completion = "raises"
    /\ call.score = <<60, 1>>
    /\ Len(call.matching_skills) = 4
    /\ Len(call.missing_skills) = 4
    /\ ExperienceYears = 3
    /\ Get(call.job, "remote", FALSE)
    /\ result.value =
          GoodMatch \o MatchingFragment(call.matching_skills) \o <<".", " ">>
              \o <<"Y","o","u","r"," ","e","x","p","e","r","i","e","n","c","e"," ","l","e","v","e","l"," ","m","a","t","c","h","e","s"," ","w","e","l","l">>
              \o <<".", " ">> \o RemoteRemark

-----------------------------------------------------------------------------
(* Properties of the gap tally *)

\* the index has a record for the skill
Known(skill) == \E i \in 1..Len(skill_index) : skill_index[i].key = Lower(skill)

\* the registered synonyms of the record that the index has for the skill
SynonymsOf(skill) ==
    LET synonyms == skill_index[CHOOSE i \in 1..Len(skill_index) :
                                   skill_index[i].key = Lower(skill)].info.synonyms
    IN  {synonyms[i] : i \in 1..Len(synonyms)}

\* requirement k of the call is missing: neither the requirement nor a
\* synonym of its record is a skill of the profile
MissingOccurrence(k) ==
    /\ ~Holds(call.user_skills, call.job_requirements[k])
    /\ Known(call.job_requirements[k]) =>
           \A synonym \in SynonymsOf(call.job_requirements[k]) :
               ~Holds(call.user_skills, synonym)

MissingOccurrences == {k \in 1..Len(call.job_requirements) : MissingOccurrence(k)}

RECURSIVE SumOfFrequencies(_)
SumOfFrequencies(gaps) ==
    IF gaps = <<>> THEN 0 ELSE Head(gaps).frequency + SumOfFrequencies(Tail(gaps))

\* C23: a requirement occurrence is missing iff neither it nor a registered
\* synonym of its index record equals a profile skill ignoring case; the gaps
\* are the canonical names of the missing occurrences, one entry per name,
\* each with the number of missing occurrences of that name as frequency, and
\* the frequencies sum to the number of missing occurrences.
C23_GapFrequenciesCountMissingOccurrences ==
    GapsReturned =>
        /\ {result.value[i].skill : i \in 1..Len(result.value)}
              = {CanonicalName(call.job_requirements[k]) : k \in MissingOccurrences}
        /\ \A i \in 1..Len(result.value) :
              /\ result.value[i].frequency >= 1
              /\ result.value[i].frequency =
                    Cardinality({k \in MissingOccurrences :
                                    CanonicalName(call.job_requirements[k])
                                        = result.value[i].skill})
        /\ \A i, j \in 1..Len(result.value) :
              i # j => result.value[i].skill # result.value[j].skill
        /\ SumOfFrequencies(result.value) = Cardinality(MissingOccurrences)

\* the profile holds a synonym of the first requirement, which is not
\* missing; of the other three occurrences two are of one skill and one is
\* of a skill the index does not know
C23_Witness ==
    /\ GapsReturned
    /\ call.user_skills = <<p3>>
    /\ call.job_requirements = <<Py, Cpp, Go, Cpp>>
    /\ Known(Py) /\ p3 \in SynonymsOf(Py) /\ ~Known(Go)
    /\ MissingOccurrences = {2, 3, 4}
    /\ Len(result.value) = 2
    /\ result.value[1].skill = Cpp /\ result.value[1].frequency = 2
    /\ result.value[2].skill = Go /\ result.value[2].frequency = 1

\* the impact of a frequency as a share of a total
ImpactOf(frequency, total) ==
    IF total = 0 THEN "low"
    ELSE IF frequency * 100 >= 50 * total THEN "high"
    ELSE IF frequency * 100 >= 25 * total THEN "medium"
    ELSE "low"

-----------------------------------------------------------------------------
(* Properties of the extracted list *)

\* the positions of the text at which a key of a record with the given
\* canonical name occurs, in any letter case
OccurrencesOf(name, text) ==
    {p \in 1..Len(text) :
        \E k \in 1..Len(skill_index) :
            /\ skill_index[k].info.name = name
            /\ p + Len(skill_index[k].key) - 1 <= Len(text)
            /\ EqIgnoreCase(SubSeq(text, p, p + Len(skill_index[k].key) - 1),
                            skill_index[k].key)}

\* the position of the first occurrence of the name, 0 if it does not occur
FirstPositionOf(name, text) ==
    IF OccurrencesOf(name, text) = {} THEN 0
    ELSE CHOOSE p \in OccurrencesOf(name, text) :
             \A q \in OccurrencesOf(name, text) : p <= q

\* C25: extract_skills returns a list in which no name occurs twice, every
\* name is the canonical name of an index record, and the names are in the
\* order of their first occurrences in the text; for an empty or null text
\* the list is empty; no error is raised.
C25_ExtractedNamesInTextOrder ==
    (pc = "done" /\ call.op = "extract_skills") =>
        /\ ~result.raised
        /\ \A i, j \in 1..Len(result.value) :
              i # j => result.value[i] # result.value[j]
        /\ \A i \in 1..Len(result.value) :
              \E k \in 1..Len(skill_index) :
                  skill_index[k].info.name = result.value[i]
        /\ \A i, j \in 1..Len(result.value) :
              i < j => FirstPositionOf(result.value[i], call.text)
                          <= FirstPositionOf(result.value[j], call.text)
        /\ call.text = <<>> => result.value = <<>>

\* C28: no returned gap names a skill the profile already holds: neither the
\* gap's canonical name nor a synonym of its index record equals a profile
\* skill ignoring case.
C28_NoGapForHeldSkill ==
    GapsReturned =>
        \A i \in 1..Len(result.value) :
            /\ ~Holds(call.user_skills, result.value[i].skill)
            /\ Known(result.value[i].skill) =>
                   \A synonym \in SynonymsOf(result.value[i].skill) :
                       ~Holds(call.user_skills, synonym)

-----------------------------------------------------------------------------
(* Frame of the operations *)

\* C27: once the analyzer is constructed, no operation (extract_skills,
\* normalize_skills, get_skill_category, get_related_skills,
\* identify_skill_gaps, scoring) adds, removes or changes an entry of the
\* skill index.
C27_IndexReadOnlyAfterConstruction ==
    [][pc # "new" => skill_index' = skill_index]_vars

\* normalize_skills returned an entry for a name the index does not know,
\* and the index is still the one built from the taxonomy
C27_Witness ==
    /\ pc = "done"
    /\ call.op = "normalize_skills"
    /\ call.skills = <<Go, p3>>
    /\ Len(result.value) = 2
    /\ ~Known(Go)
    /\ skill_index = _build_skill_index(skill_taxonomy)

-----------------------------------------------------------------------------
(* Repeated calls *)

\* C26: two calls with equal arguments return equal results whatever calls
\* happened between them: the tally of one gap analysis does not carry into
\* another, and a score does not depend on whether an earlier call loaded or
\* failed to load the embedding model.
C26_EqualCallsReturnEqualResults ==
    (pc = "done" /\ memo.call = call) => result = memo.result

-----------------------------------------------------------------------------
(* Properties of fetch_jobs *)

\* C29: every call fetch_jobs(query, location, limit) returns at most limit
\* jobs, whether they were fetched from the job boards or served from the
\* cache entry written by an earlier call with the same query, location and
\* limit.
C29_FetchReturnsAtMostLimit ==
    (pc = "done" /\ call.op = "fetch_jobs") => Len(result.value) <= call.limit

-----------------------------------------------------------------------------
(* Properties of the shared embedding model *)

\* C30: for one analyzer shared by concurrent callers of
\* compute_skill_embeddings, at most one model instance is ever constructed,
\* and every caller that encodes does so with that one instance.
C30_ModelConstructedAtMostOnce ==
    /\ instances <= 1
    /\ \A c \in DOMAIN callers :
          callers[c].encoded_with \in {None, Some(1)}

====
